---- MODULE Spec2Model ----
(***************************************************************************)
(* The product-image acquisition pipeline of zayfinds:                     *)
(*   - scripts/fetch-images.mjs          (src/unnamed/part_000), the       *)
(*     generic, sequential scraper with checkpoints, and                   *)
(*   - scripts/fetch-weidian-images.mjs  (src/unnamed/part_001), the       *)
(*     seller-specific scraper working in concurrent chunks.               *)
(* Both read data/products.json, look up an image for the products that    *)
(* lack one and write the whole array back.                                *)
(*                                                                         *)
(* JavaScript values: a string is a TLA+ string, null/undefined (a JSON    *)
(* null or a missing field) is the value Null, an array is a sequence.     *)
(* Array indices are the program's (0-based): At(arr, i) is arr[i].        *)
(***************************************************************************)
EXTENDS Integers, Sequences, FiniteSets, TLC

(***************************************************************************)
(* JavaScript strings.                                                     *)
(***************************************************************************)
Null == "<null>"

\* JS truthiness of a string-or-null value: neither null/undefined nor "".
Truthy(v) == v # Null /\ v # ""

At(arr, i) == arr[i + 1]

Min(a, b) == IF a < b THEN a ELSE b
Max(a, b) == IF a > b THEN a ELSE b

startsWith(str, p) == Len(str) >= Len(p) /\ SubSeq(str, 1, Len(p)) = p

endsWith(str, p) ==
  Len(str) >= Len(p) /\ SubSeq(str, Len(str) - Len(p) + 1, Len(str)) = p

MaxOf(S) == CHOOSE x \in S : \A y \in S : y <= x
MinOf(S) == CHOOSE x \in S : \A y \in S : x <= y

\* The first and the last of a set of positions, 0 when there is none.
Leftmost(hits) == IF hits = {} THEN 0 ELSE MinOf(hits)
Rightmost(hits) == IF hits = {} THEN 0 ELSE MaxOf(hits)

\* The 1-based position of the first occurrence of p in str at or after
\* position from, 0 when there is none.
IndexFrom(str, p, from) ==
  LET hits == {k \in from..(Len(str) - Len(p) + 1) :
                 SubSeq(str, k, k + Len(p) - 1) = p}
  IN  IF hits = {} THEN 0 ELSE MinOf(hits)

includes(str, p) == IndexFrom(str, p, 1) # 0

Digits == {"0", "1", "2", "3", "4", "5", "6", "7", "8", "9"}

CharAt(str, k) == SubSeq(str, k, k)

\* The end (exclusive) of the longest run of characters satisfying the class
\* cls (a set of characters when neg is FALSE, its complement when TRUE)
\* starting at position from.
RunEnd(str, from, cls, neg) ==
  LET stops == {k \in from..Len(str) : (CharAt(str, k) \in cls) = neg}
  IN  IF stops = {} THEN Max(from, Len(str) + 1) ELSE MinOf(stops)

(***************************************************************************)
(* URLs (the WHATWG URL class, for the http(s) URLs the catalog holds).     *)
(***************************************************************************)
SchemeLen(str) ==
  IF startsWith(str, "https://") THEN 8
  ELSE IF startsWith(str, "http://") THEN 7
  ELSE 0

\* End (exclusive) of the host of an http(s) URL.
HostEnd(str) == RunEnd(str, SchemeLen(str) + 1, {"/", "?", "#"}, TRUE)

\* new URL(str) does not throw.
ValidUrl(str) ==
  /\ str # Null
  /\ SchemeLen(str) > 0
  /\ HostEnd(str) > SchemeLen(str) + 1

\* new URL(str).origin
origin(str) == SubSeq(str, 1, HostEnd(str) - 1)

\* The query of a URL, without "?" and without the fragment; "" when none.
Query(str) ==
  LET q == IndexFrom(str, "?", 1)
      h == IndexFrom(str, "#", 1)
      stop == IF h = 0 THEN Len(str) ELSE h - 1
  IN  IF q = 0 \/ q > stop THEN "" ELSE SubSeq(str, q + 1, stop)

\* URLSearchParams.get over a query string: the value of the first
\* parameter called name from position from on, Null when there is none.
RECURSIVE ParamGet(_, _, _)
ParamGet(query, name, from) ==
  IF from > Len(query) THEN Null
  ELSE LET stop == RunEnd(query, from, {"&"}, TRUE)
           eq == RunEnd(query, from, {"=", "&"}, TRUE)
       IN  IF SubSeq(query, from, eq - 1) = name /\ eq > from
           THEN SubSeq(query, eq + 1, stop - 1)
           ELSE ParamGet(query, name, stop + 1)

searchParamsGet(str, name) == ParamGet(Query(str), name, 1)

(***************************************************************************)
(* The generic extractor (fetch-images.mjs).  A fetched page is the         *)
(* sequence of its <img> elements in document order.  An element records   *)
(* its attributes (Null when the attribute is absent) and, in within, the  *)
(* selectors of IMAGE_SELECTORS that match it through its position in the  *)
(* document (class of an ancestor, :first-child); the attribute selectors  *)
(* are decided from the attributes.                                        *)
(***************************************************************************)
IMAGE_SELECTORS ==
  << ".product-image img",
     ".product-gallery img:first-child",
     ".gallery-wrapper img:first-child",
     ".main-image img",
     ".product-main-image img",
     "img[src*=\"img.alicdn\"]",
     "img[src*=\"weidian\"]",
     "img[src*=\"mulebuy\"]",
     "img[data-src]",
     "img[data-lazy-src]",
     "img[data-original]",
     ".product-detail img:first-child",
     ".item-image img",
     "article img:first-child",
     ".content img:first-child" >>

Img(src, dataSrc, dataLazySrc, dataOriginal, within) ==
  [src |-> src, dataSrc |-> dataSrc, dataLazySrc |-> dataLazySrc,
   dataOriginal |-> dataOriginal, within |-> within]

\* Whether element img is selected by the CSS selector.
Matches(img, selector) ==
  CASE selector = "img[src*=\"img.alicdn\"]" ->
         img.src # Null /\ includes(img.src, "img.alicdn")
    [] selector = "img[src*=\"weidian\"]" ->
         img.src # Null /\ includes(img.src, "weidian")
    [] selector = "img[src*=\"mulebuy\"]" ->
         img.src # Null /\ includes(img.src, "mulebuy")
    [] selector = "img[data-src]" -> img.dataSrc # Null
    [] selector = "img[data-lazy-src]" -> img.dataLazySrc # Null
    [] selector = "img[data-original]" -> img.dataOriginal # Null
    [] OTHER -> selector \in img.within

\* a || b on string-or-undefined values.
OrElse(a, b) == IF Truthy(a) THEN a ELSE b

\* A faulty variant of $(selector).first(): the last matching element.
LastMatching(html, selector) ==
  LET hits == {j \in 1..Len(html) : Matches(html[j], selector)}
  IN  IF hits = {} THEN 0 ELSE CHOOSE j \in hits : \A h \in hits : j >= h

\* $(selector).first(): the index of the first matching element, 0 if none.
First(html, selector) ==
  LET hits == {j \in 1..Len(html) : Matches(html[j], selector)}
  IN  IF hits = {} THEN 0 ELSE CHOOSE j \in hits : \A h \in hits : j <= h

\* Lines 132-138: protocol-relative and root-relative candidates.
ResolveSelected(imageUrl, baseUrl) ==
  IF startsWith(imageUrl, "//") THEN "https:" \o imageUrl
  ELSE IF startsWith(imageUrl, "/") THEN origin(baseUrl) \o imageUrl
  ELSE imageUrl

\* Lines 125-128: the placeholder/loading test of the selector strategy.
RejectedSelected(imageUrl) ==
  \/ includes(imageUrl, "loading")
  \/ includes(imageUrl, "placeholder")
  \/ includes(imageUrl, "data:image")
  \/ Len(imageUrl) < 10

\* A faulty variant of the fallback's test: avatars are let through.
AcceptsAvatars(src) ==
  /\ Truthy(src)
  /\ ~includes(src, "logo")
  /\ ~includes(src, "icon")
  /\ ~includes(src, "loading")
  /\ ~includes(src, "placeholder")
  /\ ~startsWith(src, "data:")
  /\ Len(src) > 20

\* Lines 149-156: the test of the all-images fallback.
AcceptedFallback(src) ==
  /\ Truthy(src)
  /\ ~includes(src, "logo")
  /\ ~includes(src, "icon")
  /\ ~includes(src, "avatar")
  /\ ~includes(src, "loading")
  /\ ~includes(src, "placeholder")
  /\ ~startsWith(src, "data:")
  /\ Len(src) > 20

\* A faulty variant of lines 158-162: the candidate is returned as found.
KeepsFallback(src) == src

\* Lines 158-162.
ResolveFallback(src) ==
  IF startsWith(src, "//") THEN "https:" \o src ELSE src

\* Lines 145-166: the first acceptable <img> from element j on.
RECURSIVE FallbackFrom(_, _)
FallbackFrom(html, j) ==
  IF j > Len(html) THEN Null
  ELSE LET src == OrElse(html[j].src, html[j].dataSrc)
       IN  IF AcceptedFallback(src) THEN ResolveFallback(src)
           ELSE FallbackFrom(html, j + 1)

\* Lines 118-121: the first non-empty attribute of the element, if any.
Candidate(html, j) ==
  IF j = 0 THEN Null
  ELSE OrElse(html[j].src, OrElse(html[j].dataSrc,
         OrElse(html[j].dataLazySrc, html[j].dataOriginal)))

\* Lines 113-143: the selectors from the k-th on, then the fallback.
\* Selected takes the candidate of the k-th selector.
RECURSIVE SelectorsFrom(_, _, _)
Selected(html, baseUrl, k, imageUrl) ==
  IF ~Truthy(imageUrl) \/ RejectedSelected(imageUrl)
  THEN SelectorsFrom(html, baseUrl, k + 1)
  ELSE ResolveSelected(imageUrl, baseUrl)

SelectorsFrom(html, baseUrl, k) ==
  IF k > Len(IMAGE_SELECTORS) THEN FallbackFrom(html, 1)
  ELSE Selected(html, baseUrl, k,
                Candidate(html, First(html, IMAGE_SELECTORS[k])))

extractImageUrl(html, baseUrl) == SelectorsFrom(html, baseUrl, 1)

(***************************************************************************)
(* The seller pages the generic pipeline can be answered with.  The web is *)
(* fixed for the length of a run: a URL names its response.                *)
(***************************************************************************)
PageProduct ==
  << Img("/static/logo.png", Null, Null, Null, {}),
     Img("//img.alicdn.com/photo.jpg?x=1", Null, Null, Null,
         {".product-image img"}) >>

PageLogos ==
  << Img("logo.png", Null, Null, Null, {}),
     Img("icon-favicon.ico", Null, Null, Null, {}),
     Img("avatar-default.jpg", Null, Null, Null, {}) >>

PageFallbackRelative ==
  << Img("logo.png", Null, Null, Null, {}),
     Img("/static/upload/product-photo-12.jpg", Null, Null, Null, {}) >>

PageRootRelative ==
  << Img("/img/12345.jpg", Null, Null, Null, {".main-image img"}) >>

PageLazy ==
  << Img("/assets/loading.gif", "https://si.geilicdn.com/lazy_750_1.jpg",
         Null, Null, {".product-image img"}) >>

UrlProduct == "https://mulebuy.com/product/weidian?id=7611168397"
UrlGone == "https://mulebuy.com/product/weidian?id=404"
UrlLogos == "https://mulebuy.com/product/weidian?id=3"
UrlFallbackRelative == "https://mulebuy.com/product/weidian?id=4"
UrlRootRelative == "https://shop.example.com/item?id=5"
UrlLazy == "https://mulebuy.com/product/weidian?id=6"
UrlDown == "https://down.example.com/item?id=9"
UrlNoId == "https://mulebuy.com/about"
UrlMalformed == "mulebuy.com/product?id=123"

\* The response to GET url: status 0 is a network error or timeout.
Response(status, html) == [status |-> status, html |-> html]

MulebuyWeb(url) ==
  CASE url = UrlProduct -> Response(200, PageProduct)
    [] url = UrlLogos -> Response(200, PageLogos)
    [] url = UrlFallbackRelative -> Response(200, PageFallbackRelative)
    [] url = UrlRootRelative -> Response(200, PageRootRelative)
    [] url = UrlLazy -> Response(200, PageLazy)
    [] url = UrlNoId -> Response(200, PageLogos)
    [] url = UrlDown -> Response(0, << >>)
    [] OTHER -> Response(404, << >>)

(***************************************************************************)
(* fetch-images.mjs: fetchHTML and processProduct.                         *)
(***************************************************************************)
\* fetch(url) sends a request: it throws before sending one when the URL
\* does not parse, and fetchHTML's catch turns that into null.
SendsRequest(url) == ValidUrl(url)

\* fetchHTML's result: the page, or the "no content" value null.
NoContent == [content |-> FALSE, html |-> << >>]
Content(html) == [content |-> TRUE, html |-> html]

\* Lines 80-101: the HTML of a response, null when it is not ok or the
\* request failed.
fetchHTML(url) ==
  IF ~SendsRequest(url) THEN NoContent
  ELSE LET response == MulebuyWeb(url)
       IN  IF response.status = 200 THEN Content(response.html)
           ELSE NoContent

\* Line 175: the product has a buyUrl to fetch.
HasBuyUrl(product) == Truthy(product.buyUrl)

\* Lines 174-185.
processProduct(product) ==
  IF ~HasBuyUrl(product) THEN Null
  ELSE LET fetched == fetchHTML(product.buyUrl)
       IN  IF ~fetched.content THEN Null
           ELSE extractImageUrl(fetched.html, product.buyUrl)

(***************************************************************************)
(* Product records and the catalogs a run can find in data/products.json.  *)
(* A record carries the fields the pipelines read or write; name or buyUrl *)
(* is Null when the record lacks the field.  Ids are the dense 1..N that   *)
(* csv-to-products.mjs and dedupe-products.mjs assign.                     *)
(***************************************************************************)
DEFAULT_IMAGE_PLACEHOLDER == "/images/placeholder-item.png"

ImgResolved == "https://si.geilicdn.com/resolved_750_1.jpg"
ImgPlaceholderCdn == "https://cdn.example.com/placeholder-big.jpg"
ImgRelative == "/static/upload/product-photo-12.jpg"

Kind(name, buyUrl, imageUrl) ==
  [name |-> name, buyUrl |-> buyUrl, imageUrl |-> imageUrl]

Product(id, kind) ==
  [id |-> id, name |-> kind.name, buyUrl |-> kind.buyUrl,
   imageUrl |-> kind.imageUrl]

NeedyOk == Kind("Nike Tech Fleece", UrlProduct, DEFAULT_IMAGE_PLACEHOLDER)
Resolved == Kind("Essentials Hoodie", UrlProduct, ImgResolved)
NeedyGone == Kind("Cargo Pants", UrlGone, Null)
NoName == Kind(Null, UrlProduct, DEFAULT_IMAGE_PLACEHOLDER)
NoBuyUrl == Kind("Beanie", Null, DEFAULT_IMAGE_PLACEHOLDER)

\* Records as csv-to-products.mjs and earlier runs of the pipelines leave them.
WellFormed ==
  << NeedyOk,
     Resolved,
     NeedyGone,
     Kind("Chain", UrlLogos, DEFAULT_IMAGE_PLACEHOLDER),
     Kind("Cap", UrlProduct, ImgPlaceholderCdn),
     Kind("Belt", UrlFallbackRelative, ""),
     Kind("Scarf", UrlProduct, ImgRelative),
     Kind("", "", DEFAULT_IMAGE_PLACEHOLDER),
     Kind("Socks", UrlMalformed, DEFAULT_IMAGE_PLACEHOLDER),
     Kind("Ring", UrlNoId, Null),
     Kind("Bag", UrlRootRelative, Null),
     Kind("Watch", UrlDown, DEFAULT_IMAGE_PLACEHOLDER),
     Kind("Tee", UrlLazy, Null) >>

\* Records lacking a field among ordinary ones.
Mixed == << NoBuyUrl, NeedyOk, Resolved, NoName, NeedyGone >>

\* The catalog of n records that repeats pattern pat from its off-th kind.
Catalog(n, pat, off) ==
  [j \in 1..n |-> Product(j, pat[((j - 1 + off) % Len(pat)) + 1])]

\* The catalog of n records of kind base, but for kind special at index r.
Uniform(n, base, r, special) ==
  [j \in 1..n |-> Product(j, IF j - 1 = r THEN special ELSE base)]

(***************************************************************************)
(* State.                                                                   *)
(***************************************************************************)
VARIABLES
  pipeline,        \* "generic" (fetch-images.mjs) or "weidian"
  argv,            \* process.argv.slice(2)
  productsFile,    \* data/products.json
  checkpointFile,  \* data/images-checkpoint.json
  checkpointAtStart, \* data/images-checkpoint.json as the run found it
  pc,              \* where main() is
  exitCode,        \* the exit status of the process once it has ended
  products,        \* main's products array
  loaded,          \* the array as main loaded it
  startIndex,      \* main's startIndex (fetch-images.mjs)
  endIndex,        \* main's endIndex (fetch-images.mjs)
  i,               \* the loop index of main (fetch-images.mjs)
  successCount, failCount, skippedCount,
  fetchLog,        \* catalog indices of the HTTP requests sent, in order
  sinceCheckpoint, \* products processed since the last checkpoint write
  targetProducts,  \* main's targetProducts, as indices into products
  chunkStart,      \* processBatch's i
  inFlight,        \* chunk positions whose processProduct has not settled
  settleOrder,     \* chunk positions in the order their requests completed
  completed,       \* processBatch's completed
  imageResults,    \* processBatch's results map: id -> image URL
  pageHtml,        \* the html an extractor is given, called on its own
  pageUrl,         \* extractImageUrl's baseUrl
  extracted,       \* what the extractor returned
  run,             \* the number of this run among the runs on the files
  catalogAtStart,  \* data/products.json as the run found it
  previous         \* the run before this one: how it was started and ended

vars ==
  << pipeline, argv, productsFile, checkpointFile, checkpointAtStart, pc,
     exitCode, products,
     loaded, startIndex, endIndex, i, successCount, failCount, skippedCount,
     fetchLog, sinceCheckpoint, targetProducts, chunkStart, inFlight,
     settleOrder, completed, imageResults, pageHtml, pageUrl, extracted,
     run, catalogAtStart, previous >>

extractVars == << pageHtml, pageUrl, extracted >>
runVars == << run, catalogAtStart, previous >>
genericVars == << startIndex, endIndex, i, skippedCount, sinceCheckpoint >>
weidianVars ==
  << targetProducts, chunkStart, inFlight, settleOrder, completed,
     imageResults >>

\* The files: products.json holds an array or cannot be read or parsed;
\* the checkpoint file is absent, unparsable, or a checkpoint record.
CatalogFile(data) == [ok |-> TRUE, data |-> data]
UnreadableCatalog == [ok |-> FALSE, data |-> << >>]

NoCheckpoint ==
  [state |-> "absent", lastProcessedIndex |-> 0, products |-> << >>]
MalformedCheckpoint ==
  [state |-> "malformed", lastProcessedIndex |-> 0, products |-> << >>]

Range(seq) == {seq[k] : k \in 1..Len(seq)}

(***************************************************************************)
(* fetch-images.mjs: the batch driver.                                      *)
(***************************************************************************)
DELAY_MS == 200
PROGRESS_LOG_INTERVAL == 50
CHECKPOINT_INTERVAL == 100
TEST_LIMIT == 10

isTestMode == "--test" \in Range(argv)
isResumeMode == "--resume" \in Range(argv)

\* Lines 192-200: the checkpoint file after saveCheckpoint.
saveCheckpoint(lastProcessedIndex, prods) ==
  [state |-> "valid", lastProcessedIndex |-> lastProcessedIndex,
   products |-> prods]

\* A faulty variant of loadCheckpoint: any file there is counts as a
\* checkpoint.
LoadsAnyCheckpoint == checkpointFile.state # "absent"

\* Lines 206-216: whether loadCheckpoint returns a checkpoint (not null).
loadCheckpoint == checkpointFile.state = "valid"

\* A faulty variant of the resume index: the resumed run starts over.
RestartIndex(checkpoint) == 0

\* Line 239: the index a run resumed from a checkpoint starts at.
ResumeIndex(checkpoint) == checkpoint.lastProcessedIndex + 1

\* Line 307: existsSync(CHECKPOINT_PATH).
CheckpointExists == checkpointFile.state # "absent"

\* A faulty variant of the cleanup test: a --test run removes the file too.
RemovesAnyCheckpoint == checkpointFile.state # "absent"

\* Line 307: whether the finished run removes the checkpoint file.
RemovesCheckpoint == CheckpointExists /\ ~isTestMode

\* A faulty variant of the skip test, to show that the skip properties
\* tell the two apart: it skips the placeholders instead of the images.
SkipsPlaceholders(product) ==
  /\ Truthy(product.imageUrl)
  /\ includes(product.imageUrl, "placeholder")

\* Lines 267-269.
AlreadyHasImage(product) ==
  /\ Truthy(product.imageUrl)
  /\ ~includes(product.imageUrl, "placeholder")
  /\ product.imageUrl # "/images/placeholder-item.png"

\* Line 275.
LogsProgress == (i - startIndex) % PROGRESS_LOG_INTERVAL = 0 \/ i = startIndex

\* Line 293.
CheckpointDue(index) == (index + 1) % CHECKPOINT_INTERVAL = 0

\* main rejects; main().catch(console.error) prints the error and the
\* process ends with the status it had.
GenericAbort ==
  /\ pc' = "aborted"
  /\ UNCHANGED exitCode

\* A faulty variant of the end index: --test does not clamp the range.
WholeRange(totalProducts) == totalProducts

\* Line 249: the end (exclusive) of the range of a catalog of totalProducts
\* records.
RangeEnd(totalProducts) ==
  IF isTestMode THEN Min(TEST_LIMIT, totalProducts) ELSE totalProducts

\* Lines 221-255: arguments, checkpoint, catalog.
Load ==
  /\ pipeline = "generic" /\ pc = "start"
  /\ IF isResumeMode /\ loadCheckpoint
     THEN /\ products' = checkpointFile.products
          /\ startIndex' = ResumeIndex(checkpointFile)
          /\ pc' = "loop"
          /\ UNCHANGED exitCode
     ELSE /\ startIndex' = 0
          /\ IF productsFile.ok
             THEN /\ products' = productsFile.data
                  /\ pc' = "loop"
                  /\ UNCHANGED exitCode
             ELSE /\ products' = products
                  /\ GenericAbort
  /\ loaded' = products'
  /\ endIndex' = RangeEnd(Len(products'))
  /\ i' = startIndex'
  /\ UNCHANGED << pipeline, argv, extractVars, runVars, checkpointAtStart,
                  productsFile, checkpointFile, successCount,
                  failCount, skippedCount, fetchLog, sinceCheckpoint >>
  /\ UNCHANGED weidianVars

\* Lines 263-272: the product already has an image.
Skip ==
  /\ pipeline = "generic" /\ pc = "loop" /\ i < endIndex
  /\ AlreadyHasImage(At(products, i))
  /\ skippedCount' = skippedCount + 1
  /\ i' = i + 1
  /\ UNCHANGED << pipeline, argv, extractVars, runVars, checkpointAtStart,
                  productsFile, checkpointFile, pc, exitCode,
                  products, loaded, startIndex, endIndex, successCount,
                  failCount, fetchLog, sinceCheckpoint >>
  /\ UNCHANGED weidianVars

\* Lines 274-281: the progress line, then processProduct up to its await.
BeginProduct ==
  /\ pipeline = "generic" /\ pc = "loop" /\ i < endIndex
  /\ ~AlreadyHasImage(At(products, i))
  /\ IF LogsProgress /\ At(products, i).name = Null
     THEN \* product.name.substring throws
          /\ GenericAbort
          /\ UNCHANGED fetchLog
     ELSE /\ pc' = "processing"
          /\ fetchLog' =
               IF HasBuyUrl(At(products, i))
                  /\ SendsRequest(At(products, i).buyUrl)
               THEN Append(fetchLog, i)
               ELSE fetchLog
          /\ UNCHANGED exitCode
  /\ UNCHANGED << pipeline, argv, extractVars, runVars, checkpointAtStart,
                  productsFile, checkpointFile, products,
                  loaded, startIndex, endIndex, i, successCount, failCount,
                  skippedCount, sinceCheckpoint >>
  /\ UNCHANGED weidianVars

\* A faulty variant of the write-back: a miss leaves the record as it was.
WriteBackFound(product, imageUrl) ==
  [product EXCEPT !.imageUrl = IF Truthy(imageUrl) THEN imageUrl ELSE @]

\* Lines 283-290: the product with the result written into it.
WriteBack(product, imageUrl) ==
  [product EXCEPT !.imageUrl = IF Truthy(imageUrl) THEN imageUrl ELSE Null]

\* Lines 283-290: the result is written into the array and counted.
Record(imageUrl) ==
  /\ products' = [products EXCEPT ![i + 1] = WriteBack(@, imageUrl)]
  /\ successCount' = successCount + (IF Truthy(imageUrl) THEN 1 ELSE 0)
  /\ failCount' = failCount + (IF Truthy(imageUrl) THEN 0 ELSE 1)

\* A faulty variant of the end of the loop body: the next product is taken
\* without the rate-limit delay.
FinishWithoutDelay ==
  /\ pipeline = "generic" /\ pc = "processing"
  /\ Record(processProduct(At(products, i)))
  /\ IF CheckpointDue(i)
     THEN /\ checkpointFile' = saveCheckpoint(i, products')
          /\ sinceCheckpoint' = 0
     ELSE /\ UNCHANGED checkpointFile
          /\ sinceCheckpoint' = sinceCheckpoint + 1
  /\ pc' = "loop"
  /\ i' = i + 1
  /\ UNCHANGED << pipeline, argv, extractVars, runVars, checkpointAtStart,
                  productsFile, exitCode, loaded, startIndex,
                  endIndex, skippedCount, fetchLog >>
  /\ UNCHANGED weidianVars

\* Lines 281-295: processProduct settles; the result is written into the
\* array and the checkpoint is saved when one is due.
FinishProduct ==
  /\ pipeline = "generic" /\ pc = "processing"
  /\ Record(processProduct(At(products, i)))
  /\ IF CheckpointDue(i)
     THEN /\ checkpointFile' = saveCheckpoint(i, products')
          /\ sinceCheckpoint' = 0
     ELSE /\ UNCHANGED checkpointFile
          /\ sinceCheckpoint' = sinceCheckpoint + 1
  /\ pc' = "delay"
  /\ UNCHANGED << pipeline, argv, extractVars, runVars, checkpointAtStart,
                  productsFile, exitCode, loaded, startIndex,
                  endIndex, i, skippedCount, fetchLog >>
  /\ UNCHANGED weidianVars

\* A faulty variant of the delay step: the first product of the run whose
\* lookup failed is tried once more.
DelayThenRetry ==
  /\ pipeline = "generic" /\ pc = "delay"
  /\ i' = IF At(products, i).imageUrl = Null /\ failCount = 1 THEN i
          ELSE i + 1
  /\ pc' = "loop"
  /\ UNCHANGED << pipeline, argv, extractVars, runVars, checkpointAtStart,
                  productsFile, checkpointFile, exitCode,
                  products, loaded, startIndex, endIndex, successCount,
                  failCount, skippedCount, fetchLog, sinceCheckpoint >>
  /\ UNCHANGED weidianVars

\* Lines 297-299: the rate-limit delay elapses.
Delay ==
  /\ pipeline = "generic" /\ pc = "delay"
  /\ i' = i + 1
  /\ pc' = "loop"
  /\ UNCHANGED << pipeline, argv, extractVars, runVars, checkpointAtStart,
                  productsFile, checkpointFile, exitCode,
                  products, loaded, startIndex, endIndex, successCount,
                  failCount, skippedCount, fetchLog, sinceCheckpoint >>
  /\ UNCHANGED weidianVars

\* A faulty variant of the final write: the array is written out while
\* products of the range are still to be handled.
SaveEarly ==
  /\ pipeline = "generic" /\ pc = "loop"
  /\ productsFile' = CatalogFile(products)
  /\ pc' = "cleanup"
  /\ UNCHANGED << pipeline, argv, extractVars, runVars, checkpointAtStart,
                  checkpointFile, exitCode, products, loaded,
                  startIndex, endIndex, i, successCount, failCount,
                  skippedCount, fetchLog, sinceCheckpoint >>
  /\ UNCHANGED weidianVars

\* Lines 301-304: the whole array is written to products.json, or
\* writeFileSync throws.
Save ==
  /\ pipeline = "generic" /\ pc = "loop" /\ i >= endIndex
  /\ \E written \in BOOLEAN :
       IF written
       THEN /\ productsFile' = CatalogFile(products)
            /\ pc' = "cleanup"
            /\ UNCHANGED exitCode
       ELSE /\ UNCHANGED productsFile
            /\ GenericAbort
  /\ UNCHANGED << pipeline, argv, extractVars, runVars, checkpointAtStart,
                  checkpointFile, products, loaded,
                  startIndex, endIndex, i, successCount, failCount,
                  skippedCount, fetchLog, sinceCheckpoint >>
  /\ UNCHANGED weidianVars

\* Lines 306-323: the checkpoint is removed, the summary printed.
Cleanup ==
  /\ pipeline = "generic" /\ pc = "cleanup"
  /\ checkpointFile' =
       IF RemovesCheckpoint THEN NoCheckpoint
       ELSE checkpointFile
  /\ pc' = "done"
  /\ UNCHANGED << pipeline, argv, extractVars, runVars, checkpointAtStart,
                  productsFile, exitCode, products, loaded,
                  startIndex, endIndex, i, successCount, failCount,
                  skippedCount, fetchLog, sinceCheckpoint >>
  /\ UNCHANGED weidianVars

(***************************************************************************)
(* fetch-weidian-images.mjs: item id, embedded-data extractor, cleaner.     *)
(* A Weidian page is its raw HTML text; the regular expressions of the     *)
(* script are matched on it position by position.                          *)
(***************************************************************************)
REQUEST_DELAY_MS == 150
CONCURRENT_REQUESTS == 5

Whitespace == {" ", "\t", "\n", "\r"}

\* Matching steps: each takes the position reached so far (0: no match)
\* and gives the position after its own match, or 0.
Lit(str, pos, lit) ==
  IF pos = 0 \/ pos + Len(lit) - 1 > Len(str) THEN 0
  ELSE IF SubSeq(str, pos, pos + Len(lit) - 1) = lit THEN pos + Len(lit)
  ELSE 0

\* (?:"|&#34;)
QuoteTok(str, pos) ==
  IF Lit(str, pos, "\"") # 0 THEN Lit(str, pos, "\"")
  ELSE Lit(str, pos, "&#34;")

\* \s*
Spaces(str, pos) == IF pos = 0 THEN 0 ELSE RunEnd(str, pos, Whitespace, FALSE)

\* lit?
Opt(str, pos, lit) ==
  IF pos = 0 THEN 0
  ELSE IF Lit(str, pos, lit) # 0 THEN Lit(str, pos, lit)
  ELSE pos

\* cls+ for the complement of the set cls, greedy.
OneOrMoreNot(str, pos, cls) ==
  IF pos = 0 THEN 0
  ELSE LET stop == RunEnd(str, pos, cls, TRUE)
       IN  IF stop > pos THEN stop ELSE 0

\* \d+, greedy.
OneOrMoreDigits(str, pos) ==
  IF pos = 0 THEN 0
  ELSE LET stop == RunEnd(str, pos, Digits, FALSE)
       IN  IF stop > pos THEN stop ELSE 0

\* https?:\/\/
HttpScheme(str, pos) == Lit(str, Opt(str, Lit(str, pos, "http"), "s"), "://")

\* Line 53: buyUrl.match(/[?&]id=(\d+)/), the captured digits or Null.
IdAt(buyUrl, p) ==
  IF CharAt(buyUrl, p) \in {"?", "&"} THEN Lit(buyUrl, p + 1, "id=") ELSE 0

IdByRegex(buyUrl) ==
  LET hits == {p \in 1..Len(buyUrl) :
                 OneOrMoreDigits(buyUrl, IdAt(buyUrl, p)) # 0}
      start == IdAt(buyUrl, MinOf(hits))
  IN  IF hits = {} THEN Null
      ELSE SubSeq(buyUrl, start, OneOrMoreDigits(buyUrl, start) - 1)

\* Lines 47-56.  The catch block calls buyUrl.match, which throws when the
\* record has no buyUrl: ExtractWeidianIdThrows.
ExtractWeidianIdThrows(buyUrl) == buyUrl = Null

extractWeidianId(buyUrl) ==
  IF ValidUrl(buyUrl) THEN searchParamsGet(buyUrl, "id")
  ELSE IdByRegex(buyUrl)

\* Lines 63-65.
buildWeidianUrl(itemId) == "https://weidian.com/item.html?itemID=" \o itemId

\* Lines 149-174.
SmallSizes == {"74", "96", "52", "45", "42", "110"}

Blacklist ==
  {"poseidon-", "hz_img_", "default_headimg", "favicon", "logo",
   "unadjust_74", "unadjust_96"}

\* /_(?:74|96|52|45|42|110)_\d+/ matches somewhere in url.
SmallImagePattern(url) ==
  \E p \in 1..Len(url) : \E size \in SmallSizes :
    OneOrMoreDigits(url, Lit(url, Lit(url, Lit(url, p, "_"), size), "_")) # 0

isValidProductImage(url) ==
  /\ ~SmallImagePattern(url)
  /\ \A pattern \in Blacklist : ~includes(url, pattern)

\* "." matches no line terminator: .*$ matches from position from on.
RestOfLine(str, from) == RunEnd(str, from, {"\n", "\r"}, TRUE) > Len(str)

\* replace(/lit.*$/, ''): cut at the first lit that the rest of the
\* string follows on one line.
RECURSIVE CutAt(_, _, _)
CutAt(str, lit, from) ==
  LET p == IndexFrom(str, lit, from)
  IN  IF p = 0 THEN str
      ELSE IF RestOfLine(str, p + Len(lit)) THEN SubSeq(str, 1, p - 1)
      ELSE CutAt(str, lit, p + 1)

\* replace(/\.webp(\?.*)?$/, ''): cut at the first ".webp" that ends the
\* string or is followed by "?" and the rest of the string.
RECURSIVE CutWebp(_, _)
CutWebp(str, from) ==
  LET p == IndexFrom(str, ".webp", from)
  IN  IF p = 0 THEN str
      ELSE IF \/ p + 5 > Len(str)
              \/ CharAt(str, p + 5) = "?" /\ RestOfLine(str, p + 6)
      THEN SubSeq(str, 1, p - 1)
      ELSE CutWebp(str, p + 1)

trim(str) ==
  LET inked == {k \in 1..Len(str) : CharAt(str, k) \notin Whitespace}
  IN  IF inked = {} THEN "" ELSE SubSeq(str, MinOf(inked), MaxOf(inked))

\* Lines 181-189.
cleanImageUrl(url) ==
  trim(CutAt(CutAt(CutAt(CutWebp(url, 1), "?", 1), "&#34;", 1), "\"", 1))

\* Lines 113 and 119: the capture of
\*   (?:"|&#34;)field(?:"|&#34;)\s*:\s*open(?:"|&#34;)(https?:\/\/[^"&#]+)
\* matched at position p, Null when it does not match there; open is ""
\* for item_head and "[" (followed by \s*) for imgs.
OpenAt(html, pos, open) ==
  IF open = "" THEN pos ELSE Spaces(html, Lit(html, pos, open))

\* (https?:\/\/[^"&#]+) from position start on.
Captured(html, start) ==
  LET stop == OneOrMoreNot(html, HttpScheme(html, start), {"\"", "&", "#"})
  IN  IF stop = 0 THEN Null ELSE SubSeq(html, start, stop - 1)

FieldAt(html, p, field, open) ==
  Captured(html,
    QuoteTok(html,
      OpenAt(html,
        Spaces(html,
          Lit(html,
            Spaces(html, QuoteTok(html, Lit(html, QuoteTok(html, p), field))),
            ":")),
        open)))

\* html.match(regex)[1] for the two field patterns: the leftmost match.
FieldMatch(html, field, open) ==
  FieldAt(html,
          Leftmost({p \in 1..Len(html) : FieldAt(html, p, field, open) # Null}),
          field, open)

LargeMarkers == {"_750_", "_800_", "_1000_", "_1200_", "_1600_"}

\* No ">" lies in html[from..to-1], and the stretch is not empty: [^>]+
TagGap(html, from, to) ==
  from # 0 /\ to > from /\ RunEnd(html, from, {">"}, TRUE) >= to

\* The positions at which lit occurs in html.
Occurrences(html, lit) == {p \in 1..Len(html) : Lit(html, p, lit) # 0}

\* (https?:\/\/[^"]+(?:_750_|...)[^"]+)" at position u: the text up to the
\* next quote, when a size marker lies inside it.  HrefUpTo takes the
\* position after the scheme and the position of the quote.
HrefUpTo(html, u, body, stop) ==
  IF /\ stop # 0
     /\ stop <= Len(html)
     /\ \E m \in LargeMarkers : \E q \in (body + 1)..(stop - 1) :
          Lit(html, q, m) # 0 /\ q + Len(m) < stop
  THEN SubSeq(html, u, stop - 1)
  ELSE Null

HrefFrom(html, u, body) ==
  HrefUpTo(html, u, body, OneOrMoreNot(html, body, {"\""}))

HrefAt(html, u) == HrefFrom(html, u, HttpScheme(html, u))

\* The last position of S that [^>]+ reaches from position from.
LastAfter(html, from, S) == MaxOf({x \in S : TagGap(html, from, x)})

\* Line 125: the capture of the preload pattern for the tag opening at a
\* (greedy: the last rel, as and href that let the rest match), or Null.
\* hrefs and ases are the positions of the href and as attributes that let
\* the rest of the pattern match.
PreloadPick(html, a, hrefs, ases) ==
  LET rels == {r \in Occurrences(html, "rel=\"preload\"") :
                 /\ TagGap(html, Lit(html, a, "<link"), r)
                 /\ \E s \in ases : TagGap(html, r + 13, s)}
  IN  IF rels = {} THEN Null
      ELSE HrefAt(html,
             LastAfter(html,
               LastAfter(html, MaxOf(rels) + 13, ases) + 10, hrefs) + 6)

PreloadAmong(html, a, hrefs) ==
  PreloadPick(html, a, hrefs,
              {s \in Occurrences(html, "as=\"image\"") :
                 \E h \in hrefs : TagGap(html, s + 10, h)})

PreloadAt(html, a) ==
  PreloadAmong(html, a,
               {h \in Occurrences(html, "href=\"") : HrefAt(html, h + 6) # Null})

PreloadMatch(html) ==
  PreloadAt(html,
            Leftmost({a \in Occurrences(html, "<link") :
                        PreloadAt(html, a) # Null}))

UpperCase == "ABCDEFGHIJKLMNOPQRSTUVWXYZ"
LowerCase == "abcdefghijklmnopqrstuvwxyz"

\* A character folded for the i flag of a regular expression.
Fold(c) ==
  LET k == IndexFrom(UpperCase, c, 1)
  IN  IF k = 0 THEN c ELSE CharAt(LowerCase, k)

\* Lit under the i flag; lit is in lower case.
LitI(str, pos, lit) ==
  IF pos = 0 \/ pos + Len(lit) - 1 > Len(str) THEN 0
  ELSE IF \A k \in 1..Len(lit) : Fold(CharAt(str, pos + k - 1)) = CharAt(lit, k)
  THEN pos + Len(lit)
  ELSE 0

\* lit? under the i flag.
OptI(str, pos, lit) ==
  IF pos = 0 THEN 0
  ELSE IF LitI(str, pos, lit) # 0 THEN LitI(str, pos, lit)
  ELSE pos

LargeSizes == {"750", "800", "1000", "1600", "2400", "3000"}
Extensions == {"jpg", "jpeg", "png"}

\* _(?:750|...)_\d+\.(jpg|jpeg|png) at position k: the position after it.
CdnSuffix(html, k) ==
  Leftmost(
    {LitI(html,
          Lit(html,
              OneOrMoreDigits(html,
                Lit(html,
                    Rightmost({Lit(html, Lit(html, k, "_"), size) :
                                 size \in LargeSizes} \ {0}),
                    "_")),
              "."),
          ext) : ext \in Extensions} \ {0})

\* Line 131: the end (exclusive) of the match of cdnPattern at p, 0 if none.
\* [^"'\s]+ is greedy: the last suffix inside its run is the one matched.
\* CdnEnd takes the position after the host and the end of the run.
CdnEnd(html, body, stop) ==
  IF stop = 0 THEN 0
  ELSE CdnSuffix(html,
         Rightmost({k \in (body + 1)..stop : CdnSuffix(html, k) # 0}))

CdnRun(html, body) ==
  CdnEnd(html, body, OneOrMoreNot(html, body, {"\"", "'"} \cup Whitespace))

CdnAt(html, p) ==
  CdnRun(html,
         LitI(html, OptI(html, LitI(html, p, "http"), "s"),
              "://si.geilicdn.com/"))

\* The start of the first match of cdnPattern from position p on, 0 if none.
CdnNext(html, p) == Leftmost({k \in p..Len(html) : CdnAt(html, k) # 0})

\* Line 132: html.match(cdnPattern), the matches from the one starting
\* at first on.
RECURSIVE CdnList(_, _)
CdnList(html, first) ==
  IF first = 0 THEN << >>
  ELSE << SubSeq(html, first, CdnAt(html, first) - 1) >>
         \o CdnList(html, CdnNext(html, CdnAt(html, first)))

CdnMatches(html, p) == CdnList(html, CdnNext(html, p))

\* Lines 133-139: the first match that is a valid product image.
RECURSIVE FirstValid(_, _)
FirstValid(matches, k) ==
  IF k > Len(matches) THEN Null
  ELSE IF isValidProductImage(matches[k]) THEN cleanImageUrl(matches[k])
  ELSE FirstValid(matches, k + 1)

\* The candidate of a strategy passes, and is returned cleaned.
Passes(candidate) == candidate # Null /\ isValidProductImage(candidate)

\* Lines 114-116, 120-122, 126-128: a strategy's candidate is returned
\* cleaned when it passes; otherwise the next strategy decides.
Strategy(candidate, otherwise) ==
  IF Passes(candidate) THEN cleanImageUrl(candidate) ELSE otherwise

\* A faulty variant of the function: the imgs array is tried before the
\* item_head field.
ImgsFirst(html) ==
  Strategy(FieldMatch(html, "imgs", "["),
    Strategy(FieldMatch(html, "item_head", ""),
      Strategy(PreloadMatch(html),
        FirstValid(CdnMatches(html, 1), 1))))

\* Lines 109-142.
parseWeidianImage(html) ==
  Strategy(FieldMatch(html, "item_head", ""),
    Strategy(FieldMatch(html, "imgs", "["),
      Strategy(PreloadMatch(html),
        FirstValid(CdnMatches(html, 1), 1))))

(***************************************************************************)
(* The Weidian pages, by item id.                                           *)
(***************************************************************************)
HtmlItemHead ==
  "<script>{\"item_head\":\"https://si.geilicdn.com/abc_750_1.jpg.webp\",\"imgs\":[\"https://si.geilicdn.com/g_800_2.jpg\"]}</script>"

HtmlEncoded ==
  "&#34;item_head&#34;:&#34;https://si.geilicdn.com/poseidon-bg.png&#34;,&#34;imgs&#34; : [ &#34;https://si.geilicdn.com/pic_800_2.jpg?w=750&#34;]"

HtmlPreload ==
  "<link data-n rel=\"preload\" crossorigin as=\"image\" fetchpriority href=\"https://si.geilicdn.com/pre_1000_3.jpg\">"

HtmlCdn ==
  "<i style='background:url(https://si.geilicdn.com/bg_110_1.png)'></i><img src='https://si.geilicdn.com/open_1600_9.PNG'>"

HtmlIcons ==
  "<img src=\"https://si.geilicdn.com/shop_logo.png\"><img src=\"https://assets.geilicdn.com/favicon.ico\">"

WeidianWeb(url) ==
  CASE url = buildWeidianUrl("7611168397") -> Response(200, HtmlItemHead)
    [] url = buildWeidianUrl("4") -> Response(200, HtmlEncoded)
    [] url = buildWeidianUrl("123") -> Response(200, HtmlPreload)
    [] url = buildWeidianUrl("6") -> Response(200, HtmlCdn)
    [] url = buildWeidianUrl("3") -> Response(200, HtmlIcons)
    [] url = buildWeidianUrl("5") -> Response(200, "")
    [] url = buildWeidianUrl("9") -> Response(0, "")
    [] OTHER -> Response(404, "")

\* Lines 72-95: the HTML of a response, Null when it is not ok or the
\* request failed.
fetchHtml(url) ==
  LET response == WeidianWeb(url)
  IN  IF response.status = 200 THEN response.html ELSE Null

\* Lines 197-201: processProduct gets an item id and sends a request.
HasWeidianId(product) == Truthy(extractWeidianId(product.buyUrl))

\* Lines 196-211, for a record whose buyUrl extractWeidianId can take.
processProductWeidian(product) ==
  IF ~HasWeidianId(product) THEN Null
  ELSE LET html == fetchHtml(buildWeidianUrl(extractWeidianId(product.buyUrl)))
       IN  IF ~Truthy(html) THEN Null ELSE parseWeidianImage(html)

\* The web is fixed for the length of a run, so what processProduct makes of
\* a record is decided by the record's buyUrl: the results for the buyUrl
\* values of the catalogs, worked out once.
BuyUrls ==
  {WellFormed[k].buyUrl : k \in 1..Len(WellFormed)} \cup
  {Mixed[k].buyUrl : k \in 1..Len(Mixed)}

WeidianResults ==
  [buyUrl \in BuyUrls |-> processProductWeidian([buyUrl |-> buyUrl])]

\* Line 229: the value processProduct(product) resolves to.
Resolution(product) ==
  IF product.buyUrl \in BuyUrls THEN WeidianResults[product.buyUrl]
  ELSE processProductWeidian(product)

(***************************************************************************)
(* fetch-weidian-images.mjs: the batch driver.                              *)
(***************************************************************************)
\* The value of a string of decimal digits.
RECURSIVE DigitsValue(_)
DigitsValue(str) ==
  IF str = "" THEN 0
  ELSE 10 * DigitsValue(SubSeq(str, 1, Len(str) - 1))
         + (IndexFrom("0123456789", CharAt(str, Len(str)), 1) - 1)

\* parseInt(str, 10): leading white space, a sign, the digits that follow;
\* NaN when there are none (or str is undefined).  ParseDigits takes the
\* positions of the first digit and after the last.
ParseDigits(str, first, stop, negative) ==
  IF stop = first THEN [nan |-> TRUE, value |-> 0]
  ELSE [nan |-> FALSE,
        value |-> IF negative THEN 0 - DigitsValue(SubSeq(str, first, stop - 1))
                  ELSE DigitsValue(SubSeq(str, first, stop - 1))]

ParseFrom(str, first, negative) ==
  ParseDigits(str, first, RunEnd(str, first, Digits, FALSE), negative)

ParseSigned(str, start) ==
  IF start <= Len(str) /\ CharAt(str, start) \in {"-", "+"}
  THEN ParseFrom(str, start + 1, CharAt(str, start) = "-")
  ELSE ParseFrom(str, start, FALSE)

parseInt(str) ==
  IF str = Null THEN [nan |-> TRUE, value |-> 0]
  ELSE ParseSigned(str, RunEnd(str, 1, Whitespace, FALSE))

\* process.argv[k + 2], Null when absent.
Arg(k) == IF k < Len(argv) THEN At(argv, k) ELSE Null

\* Array.prototype.slice(start, end) on a sequence.
slice(seq, start, end) ==
  LET from == IF start < 0 THEN Max(Len(seq) + start, 0)
              ELSE Min(start, Len(seq))
      to == IF end < 0 THEN Max(Len(seq) + end, 0) ELSE Min(end, Len(seq))
  IN  SubSeq(seq, from + 1, to)

\* Lines 274-276: the indices of the records without an image, in order.
NeedsImage(product) ==
  ~Truthy(product.imageUrl) \/ product.imageUrl = DEFAULT_IMAGE_PLACEHOLDER

\* The members of a set of integers in increasing order.
Ascending(S) ==
  [k \in 1..Cardinality(S) |->
     CHOOSE x \in S : Cardinality({y \in S : y < x}) = k - 1]

productsNeedingImages(prods) ==
  Ascending({j \in 0..(Len(prods) - 1) : NeedsImage(At(prods, j))})

\* Line 260: parseInt(...) || 0; line 283: slice takes NaN as 0.
OrZero(number) == IF number.nan THEN 0 ELSE number.value

\* Lines 281-284: needing.slice(start, endIndex), endIndex undefined when
\* there is no second argument.
Sliced(needing, start) ==
  IF ~Truthy(Arg(1)) THEN slice(needing, start, Len(needing))
  ELSE slice(needing, start, OrZero(parseInt(Arg(1))))

\* A faulty variant of the work list: the positional arguments are ignored.
AllNeeding(prods) == productsNeedingImages(prods)

\* Lines 260-261 and 281-284: the slice of the records needing images that
\* the positional arguments select.
TargetProducts(prods) ==
  Sliced(productsNeedingImages(prods), OrZero(parseInt(Arg(0))))

\* A Map: get and set.
MapGet(map, key) == IF key \in DOMAIN map THEN map[key] ELSE Null
MapSet(map, key, value) ==
  [k \in DOMAIN map \cup {key} |-> IF k = key THEN value ELSE map[k]]

\* A faulty variant of the chunk: one product more than the limit.
WideChunk(from) ==
  from..(Min(from + CONCURRENT_REQUESTS + 1, Len(targetProducts)) - 1)

\* Line 226: the positions in targetProducts of the chunk starting at from.
Chunk(from) ==
  from..(Min(from + CONCURRENT_REQUESTS, Len(targetProducts)) - 1)

\* The record at position k of targetProducts.
Target(k) == At(products, At(targetProducts, k))

\* Lines 263-287 and 221-222: arguments, catalog, the work list.
LoadWeidian ==
  /\ pipeline = "weidian" /\ pc = "start"
  /\ IF productsFile.ok
     THEN /\ products' = productsFile.data
          /\ targetProducts' = TargetProducts(productsFile.data)
          /\ pc' = "batch"
          /\ UNCHANGED exitCode
     ELSE \* process.exit(1)
          /\ pc' = "aborted"
          /\ exitCode' = 1
          /\ UNCHANGED << products, targetProducts >>
  /\ loaded' = products'
  /\ chunkStart' = 0
  /\ completed' = 0
  /\ imageResults' = << >>
  /\ UNCHANGED << pipeline, argv, extractVars, runVars, checkpointAtStart,
                  productsFile, checkpointFile, successCount,
                  failCount, fetchLog, inFlight, settleOrder >>
  /\ UNCHANGED genericVars

\* Lines 226-233: every processProduct of the chunk runs up to its await;
\* the requests of the records with an item id are sent.  A record without
\* buyUrl makes extractWeidianId throw: its promise is rejected, so are
\* Promise.all, processBatch and main, and the process dies of the
\* unhandled rejection.
Dispatch ==
  /\ pipeline = "weidian" /\ pc = "batch"
  /\ chunkStart < Len(targetProducts)
  /\ LET sending == {k \in Chunk(chunkStart) :
                       /\ ~ExtractWeidianIdThrows(Target(k).buyUrl)
                       /\ HasWeidianId(Target(k))}
     IN  /\ fetchLog' = fetchLog \o
               [n \in 1..Cardinality(sending) |->
                  At(targetProducts, Ascending(sending)[n])]
         /\ inFlight' = sending
         /\ settleOrder' = << >>
  /\ IF \E k \in Chunk(chunkStart) : ExtractWeidianIdThrows(Target(k).buyUrl)
     THEN pc' = "aborted" /\ exitCode' = 1
     ELSE pc' = "joining" /\ UNCHANGED exitCode
  /\ UNCHANGED << pipeline, argv, extractVars, runVars, checkpointAtStart,
                  productsFile, checkpointFile, products,
                  loaded, successCount, failCount, targetProducts, chunkStart,
                  completed, imageResults >>
  /\ UNCHANGED genericVars

\* Line 229: the response to a request of the chunk arrives (or the
\* request fails) and processProduct settles, in any order.
Settle ==
  /\ pipeline = "weidian" /\ pc = "joining"
  /\ \E k \in inFlight :
       /\ inFlight' = inFlight \ {k}
       /\ settleOrder' = Append(settleOrder, k)
  /\ UNCHANGED << pipeline, argv, extractVars, runVars, checkpointAtStart,
                  productsFile, checkpointFile, pc, exitCode,
                  products, loaded, successCount, failCount, fetchLog,
                  targetProducts, chunkStart, completed, imageResults >>
  /\ UNCHANGED genericVars

\* Lines 236-238: a result that is a URL is set into the map.
Keep(map, id, imageUrl) ==
  IF Truthy(imageUrl) THEN MapSet(map, id, imageUrl) ELSE map

\* Lines 235-241: the results of the chunk positions from k to stop,
\* in chunk order, set into the map.
RECURSIVE Collect(_, _, _)
Collect(map, k, stop) ==
  IF k > stop THEN map
  ELSE Collect(Keep(map, Target(k).id, Resolution(Target(k))),
               k + 1, stop)

\* The number of chunk positions in S whose lookup found an image.
Found(S) == Cardinality({k \in S : Truthy(Resolution(Target(k)))})

\* Lines 239-240 and 295-306: the progress callback counts the results of
\* a chunk of the given size, found of which are URLs.
Progress(size, found) ==
  /\ completed' = completed + size
  /\ successCount' = successCount + found
  /\ failCount' = failCount + (size - found)

\* A faulty variant of the join: the driver goes on when the first request
\* of the chunk has completed.
FirstSettled == settleOrder # << >> \/ inFlight = {}

\* Line 233: Promise.all(promises) resolves when every promise of the chunk
\* has.
AllSettled == inFlight = {}

\* Lines 233-247: Promise.all resolves; the results are collected and the
\* progress callback counts them.
Join ==
  /\ pipeline = "weidian" /\ pc = "joining" /\ AllSettled
  /\ imageResults' =
       Collect(imageResults, chunkStart,
               chunkStart + Cardinality(Chunk(chunkStart)) - 1)
  /\ Progress(Cardinality(Chunk(chunkStart)), Found(Chunk(chunkStart)))
  /\ IF chunkStart + CONCURRENT_REQUESTS < Len(targetProducts)
     THEN pc' = "chunkDelay" /\ UNCHANGED chunkStart
     ELSE pc' = "batch" /\ chunkStart' = chunkStart + CONCURRENT_REQUESTS
  /\ UNCHANGED << pipeline, argv, extractVars, runVars, checkpointAtStart,
                  productsFile, checkpointFile, exitCode,
                  products, loaded, fetchLog, targetProducts, inFlight,
                  settleOrder >>
  /\ UNCHANGED genericVars

\* Lines 244-246: the delay between two chunks elapses.
ChunkDelay ==
  /\ pipeline = "weidian" /\ pc = "chunkDelay"
  /\ chunkStart' = chunkStart + CONCURRENT_REQUESTS
  /\ pc' = "batch"
  /\ UNCHANGED << pipeline, argv, extractVars, runVars, checkpointAtStart,
                  productsFile, checkpointFile, exitCode,
                  products, loaded, successCount, failCount, fetchLog,
                  targetProducts, inFlight, settleOrder, completed,
                  imageResults >>
  /\ UNCHANGED genericVars

\* A faulty variant of the merge: only the records with a newly found
\* image are kept.
MergeOnlyFound(prods, results) ==
  LET hit == SelectSeq(prods, LAMBDA p : Truthy(MapGet(results, p.id)))
  IN  [j \in 1..Len(hit) |->
         [hit[j] EXCEPT !.imageUrl = MapGet(results, hit[j].id)]]

\* Lines 317-325: the image found for a record's id is written into it.
Merge(prods, results) ==
  [j \in 1..Len(prods) |->
     IF Truthy(MapGet(results, prods[j].id))
     THEN [prods[j] EXCEPT !.imageUrl = MapGet(results, prods[j].id)]
     ELSE prods[j]]

\* Lines 309-339: processBatch has returned; the results are merged into
\* the array and the array is written to products.json, or writeFileSync
\* throws and the process exits with status 1.
Finish ==
  /\ pipeline = "weidian" /\ pc = "batch"
  /\ chunkStart >= Len(targetProducts)
  /\ products' = Merge(products, imageResults)
  /\ \E written \in BOOLEAN :
       IF written
       THEN /\ productsFile' = CatalogFile(products')
            /\ pc' = "done"
            /\ UNCHANGED exitCode
       ELSE /\ UNCHANGED productsFile
            /\ pc' = "aborted"
            /\ exitCode' = 1
  /\ UNCHANGED << pipeline, argv, extractVars, runVars, checkpointAtStart,
                  checkpointFile, loaded, successCount,
                  failCount, fetchLog, targetProducts, chunkStart, inFlight,
                  settleOrder, completed, imageResults >>
  /\ UNCHANGED genericVars

(***************************************************************************)
(* The runs checked: one run of one pipeline, over the files it finds.      *)
(***************************************************************************)
SmallLen == 3
MidLen == 12
Extra == 2
MaxOffset == 2

\* A catalog long enough for a checkpoint to be written and passed.
BigLen == CHECKPOINT_INTERVAL + Extra

\* The kinds of records for which fetch-weidian-images.mjs sends a request.
Lookups ==
  SelectSeq(WellFormed, LAMBDA kind : NeedsImage(kind) /\ HasWeidianId(kind))

\* A catalog of one full chunk of such records and Extra more.
ChunkLen == CONCURRENT_REQUESTS + Extra

SmallCatalogs ==
  {<< >>, Catalog(ChunkLen, Lookups, 0)} \cup
  {Catalog(n, pat, off) :
     n \in {SmallLen, MidLen}, pat \in {WellFormed, Mixed}, off \in 0..MaxOffset}

BigCatalogs ==
  {Catalog(BigLen, WellFormed, off) : off \in 0..MaxOffset} \cup
  { Uniform(BigLen, NeedyOk, CHECKPOINT_INTERVAL - 1, Resolved),
    Uniform(BigLen, NeedyOk, PROGRESS_LOG_INTERVAL, NoName),
    Uniform(BigLen, Resolved, CHECKPOINT_INTERVAL, NeedyGone) }

\* What a run of fetch-images.mjs from index 0 has made of catalog cat when
\* it has processed index last.
AfterRun(cat, last) ==
  [j \in 1..Len(cat) |->
     IF j - 1 <= last /\ ~AlreadyHasImage(cat[j])
     THEN WriteBack(cat[j], processProduct(cat[j]))
     ELSE cat[j]]

\* The checkpoints an interrupted earlier run has left.
Checkpoints ==
  {saveCheckpoint(CHECKPOINT_INTERVAL - 1,
                  AfterRun(cat, CHECKPOINT_INTERVAL - 1)) :
     cat \in { Catalog(BigLen, WellFormed, 0),
               Uniform(BigLen, NeedyOk, CHECKPOINT_INTERVAL + 1, Resolved) }}

GenericArgs ==
  { << >>, << "--test" >>, << "--resume" >>, << "--test", "--resume" >> }

WeidianArgs ==
  { << >>, << "0", "5" >>, << "5", "10" >>, << "2" >>, << "1", "x" >>,
    << "3", "1" >> }

\* A process that has just started: nothing loaded, nothing counted.
Fresh ==
  /\ pc = "start"
  /\ exitCode = 0
  /\ products = << >>
  /\ loaded = << >>
  /\ startIndex = 0
  /\ endIndex = 0
  /\ i = 0
  /\ successCount = 0
  /\ failCount = 0
  /\ skippedCount = 0
  /\ fetchLog = << >>
  /\ sinceCheckpoint = 0
  /\ targetProducts = << >>
  /\ chunkStart = 0
  /\ inFlight = {}
  /\ settleOrder = << >>
  /\ completed = 0
  /\ imageResults = << >>

\* No extractor is being called on its own.
NoExtraction ==
  /\ pageHtml = << >>
  /\ pageUrl = ""
  /\ extracted = Null

\* What is known of a run once the next one has started: its script and
\* arguments, how it ended ("done", "aborted" or "killed"), the catalog it
\* found and the indices it sent requests for.
RunRecord(script, args, outcome, catalog, fetches) ==
  [pipeline |-> script, argv |-> args, outcome |-> outcome,
   catalog |-> catalog, fetchLog |-> fetches]

NoRun == RunRecord("none", << >>, "none", UnreadableCatalog, << >>)

\* The first run on the files.
FirstRun ==
  /\ run = 1
  /\ catalogAtStart = productsFile
  /\ previous = NoRun

Init ==
  /\ checkpointFile \in {NoCheckpoint, MalformedCheckpoint} \cup Checkpoints
  /\ productsFile \in
       {UnreadableCatalog} \cup
       {CatalogFile(cat) : cat \in SmallCatalogs \cup BigCatalogs}
  /\ checkpointAtStart = checkpointFile
  /\ pipeline \in {"generic", "weidian"}
  /\ pipeline = "weidian" =>
       /\ Len(productsFile.data) <= MidLen
       /\ checkpointFile.state # "malformed"
  /\ argv \in (IF pipeline = "generic" THEN GenericArgs ELSE WeidianArgs)
  /\ Fresh
  /\ NoExtraction
  /\ FirstRun

Next ==
  \/ Load
  \/ Skip
  \/ BeginProduct
  \/ FinishProduct
  \/ Delay
  \/ Save
  \/ Cleanup
  \/ LoadWeidian
  \/ Dispatch
  \/ Settle
  \/ Join
  \/ ChunkDelay
  \/ Finish

Spec == Init /\ [][Next]_vars

(***************************************************************************)
(* scripts/dedupe-products.mjs: the script reads products.json, drops the   *)
(* records whose buyUrl an earlier record has, renumbers the ids, prints a  *)
(* report and writes the array back.  It runs from top to bottom; an        *)
(* exception ends the process with status 1.                                *)
(***************************************************************************)
SAMPLE_SIZE == 5

\* Lines 28-39: the filter from record k on, seen being the buyUrls added to
\* the Set so far; keep tells which part is wanted, the records kept (the
\* filter's result) or the ones pushed to duplicates.
RECURSIVE FilterFrom(_, _, _, _)
FilterFrom(prods, k, seen, keep) ==
  IF k > Len(prods) THEN << >>
  ELSE IF prods[k].buyUrl \in seen
  THEN (IF keep THEN << >> ELSE << prods[k] >>)
         \o FilterFrom(prods, k + 1, seen, keep)
  ELSE (IF keep THEN << prods[k] >> ELSE << >>)
         \o FilterFrom(prods, k + 1, seen \cup {prods[k].buyUrl}, keep)

\* Lines 32-39.
deduped(prods) == FilterFrom(prods, 1, {}, TRUE)
duplicates(prods) == FilterFrom(prods, 1, {}, FALSE)

\* Lines 42-44: product.id = index + 1.
Renumber(prods) == [j \in 1..Len(prods) |-> [prods[j] EXCEPT !.id = j]]

\* Lines 53-61: dup.name.substring throws for one of the duplicates shown.
ReportThrows(dups) ==
  \E k \in 1..Min(SAMPLE_SIZE, Len(dups)) : dups[k].name = Null

\* What the script does not touch.
dedupeFrame ==
  << argv, checkpointFile, checkpointAtStart, startIndex, endIndex, i,
     successCount, failCount, skippedCount, fetchLog, sinceCheckpoint,
     targetProducts, chunkStart, inFlight, settleOrder, completed,
     imageResults, extractVars, runVars >>

\* Line 24: the catalog is read and parsed, or the script dies.
DedupeLoad ==
  /\ pipeline = "dedupe" /\ pc = "start"
  /\ IF productsFile.ok
     THEN /\ products' = productsFile.data
          /\ pc' = "filter"
          /\ UNCHANGED exitCode
     ELSE /\ pc' = "aborted"
          /\ exitCode' = 1
          /\ UNCHANGED products
  /\ loaded' = products'
  /\ UNCHANGED << pipeline, productsFile >>
  /\ UNCHANGED dedupeFrame

\* Lines 27-44: the filter, then the new ids.
DedupeFilter ==
  /\ pipeline = "dedupe" /\ pc = "filter"
  /\ products' = Renumber(deduped(products))
  /\ pc' = "report"
  /\ UNCHANGED << pipeline, productsFile, loaded, exitCode >>
  /\ UNCHANGED dedupeFrame

\* Lines 46-61: the report with its sample of the duplicates removed.
DedupeReport ==
  /\ pipeline = "dedupe" /\ pc = "report"
  /\ IF ReportThrows(duplicates(loaded))
     THEN pc' = "aborted" /\ exitCode' = 1
     ELSE pc' = "save" /\ UNCHANGED exitCode
  /\ UNCHANGED << pipeline, productsFile, products, loaded >>
  /\ UNCHANGED dedupeFrame

\* Line 64: the array is written to products.json, or writeFileSync throws.
DedupeSave ==
  /\ pipeline = "dedupe" /\ pc = "save"
  /\ \E written \in BOOLEAN :
       IF written
       THEN /\ productsFile' = CatalogFile(products)
            /\ pc' = "done"
            /\ UNCHANGED exitCode
       ELSE /\ UNCHANGED productsFile
            /\ pc' = "aborted"
            /\ exitCode' = 1
  /\ UNCHANGED << pipeline, products, loaded >>
  /\ UNCHANGED dedupeFrame

\* The catalogs the script is run on: every sequence of up to DedupeLen
\* records of these kinds (three of them share a buyUrl), and catalogs
\* with more duplicates than the report shows, one of them without a name.
DedupeLen == 4

DedupeKinds == {NeedyOk, Resolved, NeedyGone, NoName, NoBuyUrl}

Numbered(kinds) == [j \in 1..Len(kinds) |-> Product(j, kinds[j])]

DedupeCatalogs ==
  {Numbered(kinds) :
     kinds \in UNION {[1..n -> DedupeKinds] : n \in 0..DedupeLen}} \cup
  {Uniform(SAMPLE_SIZE + 2, NeedyOk, r, NoName) : r \in 0..(SAMPLE_SIZE + 1)}

InitDedupe ==
  /\ pipeline = "dedupe"
  /\ productsFile \in
       {UnreadableCatalog} \cup {CatalogFile(cat) : cat \in DedupeCatalogs}
  /\ checkpointFile = NoCheckpoint
  /\ checkpointAtStart = checkpointFile
  /\ argv = << >>
  /\ Fresh
  /\ NoExtraction
  /\ FirstRun

NextDedupe ==
  \/ DedupeLoad
  \/ DedupeFilter
  \/ DedupeReport
  \/ DedupeSave

SpecDedupe == InitDedupe /\ [][NextDedupe]_vars

(***************************************************************************)
(* extractImageUrl on its own (fetch-images.mjs, lines 109-167): the       *)
(* function is given a page and the URL the page was fetched from, and     *)
(* returns.                                                                *)
(***************************************************************************)
\* Line 109-167, one call.
Extract ==
  /\ pipeline = "extract" /\ pc = "start"
  /\ extracted' = extractImageUrl(pageHtml, pageUrl)
  /\ pc' = "done"
  /\ UNCHANGED << pipeline, argv, productsFile, checkpointFile,
                  checkpointAtStart, exitCode, products, loaded,
                  successCount, failCount, fetchLog, pageHtml, pageUrl,
                  runVars >>
  /\ UNCHANGED genericVars
  /\ UNCHANGED weidianVars

\* The values an image attribute is given: root-relative, protocol-
\* relative, absolute and document-relative URLs, short and long, with
\* and without a query, and the values the extractor passes over.
ImageSources ==
  { "/img.jpg",
    "/img/12345.jpg",
    "/static/upload/product-photo-12.jpg",
    "/media/catalog/product/12.jpg?width=750",
    "//a.co/i",
    "//cdn.example.com/img.jpg",
    "//img.alicdn.com/photo.jpg?x=1",
    "https://si.geilicdn.com/resolved_750_1.jpg",
    "upload/product-photo-12-large.jpg",
    "//cdn.example.com/placeholder.png",
    "/assets/loading.gif" }

\* The pages that carry source src: in the element a selector finds, in
\* an element no selector finds, alone or after elements the extractor
\* passes over, and in a data-src attribute.
PagesWith(src) ==
  { << Img(src, Null, Null, Null, {".product-image img"}) >>,
    << Img(src, Null, Null, Null, {}) >>,
    << Img("logo.png", Null, Null, Null, {}),
       Img(src, Null, Null, Null, {}) >>,
    << Img(Null, src, Null, Null, {}) >>,
    << Img("/assets/loading.gif", Null, Null, Null, {".product-image img"}),
       Img(src, Null, Null, Null, {".main-image img"}) >> }

\* Sources the all-images fallback has to decide on: site furniture under
\* long URLs, a data URI, and paths of 19, 20 and 21 characters.
FurnitureSources ==
  { "https://cdn.example.com/assets/site-logo.png",
    "https://cdn.example.com/assets/icon-cart.png",
    "https://cdn.example.com/users/avatar-default.jpg",
    "https://cdn.example.com/assets/loading-spinner.gif",
    "https://cdn.example.com/assets/placeholder-big.jpg",
    "data:image/png;base64,iVBORw0KGgoAAAANSUhEUg",
    "upload/photo-12.jpg",
    "upload/photo-123.jpg",
    "upload/photo-1234.jpg" }

\* Pages no selector finds anything in: the source alone, before a product
\* photo, after the site's logo, and as the data-src of a second lazy
\* image whose first sibling still shows the spinner.
FallbackPagesWith(src) ==
  { << Img(src, Null, Null, Null, {}) >>,
    << Img(src, Null, Null, Null, {}),
       Img("https://cdn.example.com/upload/photo-12.jpg", Null, Null, Null,
           {}) >>,
    << Img("logo.png", Null, Null, Null, {}),
       Img(src, Null, Null, Null, {}),
       Img("https://cdn.example.com/upload/photo-13.jpg", Null, Null, Null,
           {}) >>,
    << Img(Null, "loading.gif", Null, Null, {}),
       Img(Null, src, Null, Null, {}) >> }

\* What the first element a selector finds may carry in an attribute.
AttributeValues == {Null, "", "/img/12345.jpg", "/assets/loading.gif"}

\* Pages on which the selectors have to choose: an element with any
\* combination of the four attributes before a second element of the same
\* container, and a later element that an earlier selector finds.
SelectorPages ==
  { << Img(src, dataSrc, dataLazySrc, dataOriginal, {".product-image img"}),
       Img("/static/upload/product-photo-12.jpg", Null, Null, Null,
           {".product-image img"}) >> :
      src \in AttributeValues, dataSrc \in AttributeValues,
      dataLazySrc \in {Null, "//cdn.example.com/lazy.jpg"},
      dataOriginal \in {Null, "photo.jpg", "photo1.jpg"} } \cup
  { << Img(src, Null, Null, Null, {".main-image img"}),
       Img("https://si.geilicdn.com/b_750_1.jpg", Null, Null, Null,
           {".product-image img"}) >> : src \in ImageSources } \cup
  { << Img("https://cdn.example.com/data:image-of-item-12.jpg", Null, Null,
           Null, {".item-image img"}) >> }

ExtractPages ==
  UNION {PagesWith(src) : src \in ImageSources} \cup
  UNION {FallbackPagesWith(src) : src \in FurnitureSources} \cup
  SelectorPages \cup
  {PageLogos}

\* The URLs the pages were fetched from.
ExtractBaseUrls ==
  { "https://shop.example.com/item?id=1",
    UrlProduct,
    "http://shop.example.com:8080" }

InitExtract ==
  /\ pipeline = "extract"
  /\ productsFile = UnreadableCatalog
  /\ checkpointFile = NoCheckpoint
  /\ checkpointAtStart = checkpointFile
  /\ argv = << >>
  /\ Fresh
  /\ pageHtml \in ExtractPages
  /\ pageUrl \in ExtractBaseUrls
  /\ extracted = Null
  /\ FirstRun

NextExtract == Extract

SpecExtract == InitExtract /\ [][NextExtract]_vars

(***************************************************************************)
(* parseWeidianImage on its own (fetch-weidian-images.mjs, lines 109-142): *)
(* the function is given the text of an item page and returns.             *)
(***************************************************************************)
\* Lines 109-142, one call.
Parse ==
  /\ pipeline = "parse" /\ pc = "start"
  /\ extracted' = parseWeidianImage(pageHtml)
  /\ pc' = "done"
  /\ UNCHANGED << pipeline, argv, productsFile, checkpointFile,
                  checkpointAtStart, exitCode, products, loaded,
                  successCount, failCount, fetchLog, pageHtml, pageUrl,
                  runVars >>
  /\ UNCHANGED genericVars
  /\ UNCHANGED weidianVars

\* The embedded data of an item page is JSON, as it is or HTML-encoded.
QuoteStyles == {"\"", "&#34;"}

\* q field q : open q url q, nothing for a page without the field.
Field(q, field, open, url) ==
  IF url = Null THEN ""
  ELSE q \o field \o q \o ":" \o open \o q \o url \o q \o ","

PreloadLink(url) ==
  IF url = Null THEN ""
  ELSE "<link rel=\"preload\" as=\"image\" href=\"" \o url \o "\">"

\* What a page has in each place: nothing, a product image, or an image
\* isValidProductImage turns down.
ItemHeadUrls ==
  { Null,
    "https://si.geilicdn.com/abc_750_1.jpg.webp",
    "https://si.geilicdn.com/h_800_1.jpg?w=750&h=750",
    "https://si.geilicdn.com/shop_logo.png",
    "https://si.geilicdn.com/head_74_1.jpg" }

ImgsUrls ==
  { Null,
    "https://si.geilicdn.com/g_800_2.jpg",
    "https://si.geilicdn.com/poseidon-bg.png" }

PreloadUrls ==
  { Null,
    "https://si.geilicdn.com/pre_1000_3.jpg",
    "https://si.geilicdn.com/hz_img_1200_1.png" }

BodyTexts ==
  { "",
    "<img src='https://si.geilicdn.com/open_1600_9.PNG'>",
    "<img src='https://si.geilicdn.com/logo_750_1.png'><img src='https://si.geilicdn.com/d_3000_4.jpeg'>" }

ItemPage(q, itemHead, imgs, preload, body) ==
  PreloadLink(preload) \o "<script>{" \o
  Field(q, "item_head", "", itemHead) \o Field(q, "imgs", "[", imgs) \o
  "}</script>" \o body

\* An HTML-encoded page without item_head and imgs, whose cover has no
\* size suffix.
HtmlEncodedGallery ==
  "&#34;cover&#34;:&#34;https://si.geilicdn.com/cover.webp&#34;,&#34;detail&#34;:&#34;https://si.geilicdn.com/d_750_1.jpg&#34;"

ParsePages ==
  { ItemPage(q, itemHead, imgs, preload, body) :
      q \in QuoteStyles, itemHead \in ItemHeadUrls, imgs \in ImgsUrls,
      preload \in PreloadUrls, body \in BodyTexts } \cup
  { HtmlItemHead, HtmlEncoded, HtmlPreload, HtmlCdn, HtmlIcons,
    HtmlEncodedGallery }

InitParse ==
  /\ pipeline = "parse"
  /\ productsFile = UnreadableCatalog
  /\ checkpointFile = NoCheckpoint
  /\ checkpointAtStart = checkpointFile
  /\ argv = << >>
  /\ Fresh
  /\ pageHtml \in ParsePages
  /\ pageUrl = ""
  /\ extracted = Null
  /\ FirstRun

NextParse == Parse

SpecParse == InitParse /\ [][NextParse]_vars

(***************************************************************************)
(* Runs one after the other on the same data/products.json and             *)
(* data/images-checkpoint.json: a run of either script ends, or a run of   *)
(* fetch-images.mjs is killed, and the next run is started.                *)
(***************************************************************************)
MaxRuns == 4
RangeStep == 2

\* The documented usage of the positional arguments: one range, then the
\* range after it.
FirstRange == << "0", ToString(RangeStep) >>
SecondRange == << ToString(RangeStep), ToString(2 * RangeStep) >>

\* A catalog with images but for the record a checkpoint is due at and the
\* last record, which only fetch-weidian-images.mjs finds an image for.
Sparse ==
  [j \in 1..BigLen |->
     Product(j, IF j = CHECKPOINT_INTERVAL THEN NeedyOk
                ELSE IF j = BigLen THEN Kind("Tee", UrlLazy, Null)
                ELSE Resolved)]

\* A catalog of records without an image: more than one chunk of them, and
\* more than the two ranges take.
Needy == Catalog(ChunkLen, << NeedyOk >>, 0)

RunCatalogs == {Sparse, Needy}

RunArgs(script) ==
  IF script = "generic" THEN {<< >>, << "--resume" >>, << "--test" >>}
  ELSE {<< >>, FirstRange, SecondRange}

\* The process is running.
Running == pc \notin {"done", "aborted", "killed"}

\* fetch-images.mjs is killed (Ctrl-C, a closed terminal): what is in the
\* process is lost, the files stay as they are.
Kill ==
  /\ pipeline = "generic"
  /\ Running
  /\ pc' = "killed"
  /\ UNCHANGED << pipeline, argv, extractVars, runVars, checkpointAtStart,
                  productsFile, checkpointFile, exitCode, products, loaded,
                  successCount, failCount, fetchLog >>
  /\ UNCHANGED genericVars
  /\ UNCHANGED weidianVars

\* The run has ended or was killed; one of the scripts is started on the
\* files as they are.
StartRun ==
  /\ ~Running
  /\ run < MaxRuns
  /\ \E script \in {"generic", "weidian"} :
       /\ pipeline' = script
       /\ argv' \in RunArgs(script)
  /\ run' = run + 1
  /\ previous' = RunRecord(pipeline, argv, pc, catalogAtStart, fetchLog)
  /\ catalogAtStart' = productsFile
  /\ checkpointAtStart' = checkpointFile
  /\ pc' = "start"
  /\ exitCode' = 0
  /\ products' = << >>
  /\ loaded' = << >>
  /\ startIndex' = 0
  /\ endIndex' = 0
  /\ i' = 0
  /\ successCount' = 0
  /\ failCount' = 0
  /\ skippedCount' = 0
  /\ fetchLog' = << >>
  /\ sinceCheckpoint' = 0
  /\ targetProducts' = << >>
  /\ chunkStart' = 0
  /\ inFlight' = {}
  /\ settleOrder' = << >>
  /\ completed' = 0
  /\ imageResults' = << >>
  /\ UNCHANGED << productsFile, checkpointFile, extractVars >>

InitRuns ==
  /\ checkpointFile = NoCheckpoint
  /\ productsFile \in {CatalogFile(cat) : cat \in RunCatalogs}
  /\ checkpointAtStart = checkpointFile
  /\ pipeline \in {"generic", "weidian"}
  /\ argv \in RunArgs(pipeline)
  /\ Fresh
  /\ NoExtraction
  /\ FirstRun

NextRuns ==
  \/ Next
  \/ Kill
  \/ StartRun

SpecRuns == InitRuns /\ [][NextRuns]_vars

(***************************************************************************)
(* fetch-weidian-images.mjs on catalogs in which two records carry the     *)
(* same id (a products.json put together by hand or from two exports).     *)
(***************************************************************************)
\* Catalog cat with the id of the record at position a given to the record
\* at position b as well.
SharedId(cat, a, b) == [cat EXCEPT ![b].id = cat[a].id]

UniqueIdCatalogs ==
  {Catalog(ChunkLen, Lookups, 0)} \cup
  {Catalog(n, WellFormed, off) :
     n \in {SmallLen, ChunkLen}, off \in 0..MaxOffset}

SharedCatalogs ==
  UniqueIdCatalogs \cup
  {SharedId(cat, a, b) :
     cat \in UniqueIdCatalogs, a \in 1..(SmallLen - 1), b \in 2..SmallLen}

InitShared ==
  /\ pipeline = "weidian"
  /\ argv \in WeidianArgs
  /\ productsFile \in {CatalogFile(cat) : cat \in SharedCatalogs}
  /\ checkpointFile = NoCheckpoint
  /\ checkpointAtStart = checkpointFile
  /\ Fresh
  /\ NoExtraction
  /\ FirstRun

NextShared ==
  \/ LoadWeidian
  \/ Dispatch
  \/ Settle
  \/ Join
  \/ ChunkDelay
  \/ Finish

SpecShared == InitShared /\ [][NextShared]_vars

(***************************************************************************)
(* Properties.                                                              *)
(***************************************************************************)
\* products.json holds the array this run has written.
Written == pc \in {"cleanup", "done"}

\* An image URL that is neither absent nor a placeholder value.
ResolvedImage(url) ==
  /\ url # Null
  /\ url # ""
  /\ ~includes(url, "placeholder")

\* C1 - Skip logic.  In a run of either pipeline, a product whose imageUrl
\* is a non-null, non-placeholder URL when the run loads the catalog has no
\* request sent for it, and its imageUrl in the catalog the run writes is
\* the one it had.
SkipLogic ==
  \A j \in 0..(Len(loaded) - 1) :
    ResolvedImage(At(loaded, j).imageUrl) =>
      /\ j \notin Range(fetchLog)
      /\ Written =>
           At(productsFile.data, j).imageUrl = At(loaded, j).imageUrl

\* A finished run of fetch-images.mjs that skipped a product with an image
\* and fetched and changed others.
SkipLogicWitness ==
  /\ pipeline = "generic" /\ pc = "done"
  /\ skippedCount > 0
  /\ fetchLog # << >>
  /\ productsFile.data # loaded
  /\ \E j \in 0..(Len(loaded) - 1) : ResolvedImage(At(loaded, j).imageUrl)

\* C2 - Checkpoint resume.  A --resume run (not --test) of fetch-images.mjs
\* that finds a checkpoint with lastProcessedIndex k over N products sends
\* requests only for indices k+1..N-1, and entries 0..k of the catalog it
\* writes are entries 0..k of the checkpoint's products.
ResumeCorrect ==
  ( /\ pipeline = "generic" /\ isResumeMode /\ ~isTestMode
    /\ checkpointAtStart.state = "valid" ) =>
    LET k == checkpointAtStart.lastProcessedIndex
        N == Len(checkpointAtStart.products)
    IN  /\ \A n \in 1..Len(fetchLog) : fetchLog[n] \in (k + 1)..(N - 1)
        /\ Written =>
             /\ Len(productsFile.data) = N
             /\ \A j \in 0..k :
                  At(productsFile.data, j) = At(checkpointAtStart.products, j)

\* A finished resumed run that fetched for a product after the checkpoint,
\* over a checkpoint in which a product before it still lacks an image.
ResumeCorrectWitness ==
  /\ pipeline = "generic" /\ isResumeMode /\ ~isTestMode
  /\ checkpointAtStart.state = "valid"
  /\ pc = "done"
  /\ fetchLog # << >>
  /\ \E j \in 0..checkpointAtStart.lastProcessedIndex :
       ~ResolvedImage(At(checkpointAtStart.products, j).imageUrl)

\* C3 - Checkpoint interval.  fetch-images.mjs writes a checkpoint after
\* every 100 processed products: it never processes more than 100 products
\* in a row without writing one, whichever products in the range it skips.
CheckpointEveryInterval ==
  pipeline = "generic" => sinceCheckpoint <= CHECKPOINT_INTERVAL

\* The run is stopped with products of its range not yet handled.
AbortedMidRange ==
  /\ pc = "aborted"
  /\ \/ pipeline = "generic" /\ i < endIndex
     \/ pipeline = "weidian" /\ chunkStart < Len(targetProducts)

\* C4 - Per-item error containment.  In both pipelines an error raised while
\* one product is handled (missing or malformed buyUrl, missing name, fetch
\* or parse failure) becomes a null result and a counted failure, and the
\* run goes on: no run is aborted with products of its range left.
PerItemContainment == ~AbortedMidRange

\* An absolute http(s) URL.
AbsoluteUrl(url) == startsWith(url, "http://") \/ startsWith(url, "https://")

\* What an imageUrl may be after a run: null, or a non-empty absolute URL
\* that is no loading or placeholder image and no data URI.
SafeImageUrl(url) ==
  \/ url = Null
  \/ /\ url # ""
     /\ AbsoluteUrl(url)
     /\ ~includes(url, "loading")
     /\ ~includes(url, "placeholder")
     /\ ~startsWith(url, "data:")

\* C5 - Null-safety.  After a completed run of either pipeline every record
\* of the written catalog, skipped and out-of-range ones included, has an
\* imageUrl that is null or a non-empty absolute URL: never an empty string,
\* a relative path, or a string with 'loading', 'placeholder' or a data-URI
\* prefix.
NullSafety ==
  Written =>
    \A j \in 1..Len(productsFile.data) :
      SafeImageUrl(productsFile.data[j].imageUrl)

\* A record but for its imageUrl.
Frame(product) == [product EXCEPT !.imageUrl = Null]

\* C6 - Total ordering preserved.  In a run of either pipeline the catalog
\* written has the length of the array loaded, the same id at every index,
\* and every field but imageUrl of every record unchanged.
OrderPreserved ==
  Written =>
    /\ Len(productsFile.data) = Len(loaded)
    /\ \A j \in 1..Len(loaded) :
         /\ productsFile.data[j].id = loaded[j].id
         /\ Frame(productsFile.data[j]) = Frame(loaded[j])

\* A finished run of fetch-weidian-images.mjs over a catalog of MidLen
\* records or more that changed the image of some records and not of others.
OrderPreservedWitness ==
  /\ pipeline = "weidian" /\ pc = "done"
  /\ Len(loaded) >= MidLen
  /\ \E j \in 1..Len(loaded) : productsFile.data[j] # loaded[j]
  /\ \E j \in 1..Len(loaded) : productsFile.data[j] = loaded[j]

\* The run was stopped because products.json could not be read or parsed.
ReadFailed == pc = "aborted" /\ ~productsFile.ok /\ loaded = << >>

\* The run was stopped because products.json could not be written.
WriteFailed == pc = "aborted" /\ ~AbortedMidRange /\ ~ReadFailed

\* C7 - Catalog I/O failure is fatal with a non-zero exit.  In both
\* pipelines, when products.json cannot be read or parsed the run is
\* aborted before any request is sent and the process ends with a non-zero
\* status; when products.json cannot be written the process ends with a
\* non-zero status too.
CatalogFailureFatal ==
  /\ ReadFailed => fetchLog = << >> /\ exitCode # 0
  /\ WriteFailed => exitCode # 0

\* C8 - Checkpoint lifecycle at completion.  fetch-images.mjs deletes the
\* checkpoint file if and only if the run is not a --test run and has come
\* to the end of its range, and only after products.json has been written:
\* a run that is not a --test run and completes leaves no checkpoint file,
\* the file is removed only by such a run once the catalog is written, and
\* a --test run never creates, overwrites or deletes the file.
CheckpointLifecycle ==
  /\ [](pipeline = "generic" /\ ~isTestMode /\ pc = "done" =>
          checkpointFile.state = "absent")
  /\ [][ (checkpointFile.state # "absent" /\ checkpointFile'.state = "absent")
           => (~isTestMode /\ Written /\ i >= endIndex) ]_vars
  /\ [](pipeline = "generic" /\ isTestMode =>
          checkpointFile = checkpointAtStart)

\* A finished run, not a --test run, that found no checkpoint file, wrote
\* one while it ran and removed it at the end.
CheckpointLifecycleWitness ==
  /\ pipeline = "generic" /\ ~isTestMode /\ ~isResumeMode /\ pc = "done"
  /\ checkpointAtStart.state = "absent"
  /\ successCount + failCount > sinceCheckpoint
  /\ checkpointFile.state = "absent"

\* C9 - Malformed checkpoint on resume.  With --resume and a checkpoint file
\* that does not parse, fetch-images.mjs discards the checkpoint and runs
\* from index 0 over the array read from products.json, without aborting.
MalformedCheckpointDiscarded ==
  /\ [][ ( /\ pipeline = "generic" /\ pc = "start" /\ isResumeMode
           /\ checkpointFile.state = "malformed" /\ productsFile.ok )
         => ( /\ pc' = "loop"
              /\ i' = 0
              /\ products' = productsFile.data ) ]_vars
  /\ [](( /\ pipeline = "generic" /\ isResumeMode
          /\ checkpointAtStart.state = "malformed" ) => startIndex = 0)

\* A finished --resume run over a malformed checkpoint file that fetched
\* for the product at index 0.
MalformedCheckpointWitness ==
  /\ pipeline = "generic" /\ isResumeMode /\ pc = "done"
  /\ checkpointAtStart.state = "malformed"
  /\ fetchLog # << >>
  /\ fetchLog[1] = 0

\* The catalog indices of the products the run processes.
Processed ==
  IF pipeline = "generic"
  THEN {j \in startIndex..(endIndex - 1) : ~AlreadyHasImage(At(loaded, j))}
  ELSE Range(targetProducts)

\* What the pipeline's lookup yields for the record at index j as loaded.
Extracted(j) ==
  IF pipeline = "generic" THEN processProduct(At(loaded, j))
  ELSE processProductWeidian(At(loaded, j))

GenericFetchFails(product) ==
  /\ HasBuyUrl(product)
  /\ SendsRequest(product.buyUrl)
  /\ MulebuyWeb(product.buyUrl).status # 200

WeidianFetchFails(product) ==
  /\ ~ExtractWeidianIdThrows(product.buyUrl)
  /\ HasWeidianId(product)
  /\ WeidianWeb(buildWeidianUrl(extractWeidianId(product.buyUrl))).status # 200

\* The positions of the current chunk whose request fails.
FailedInChunk == {k \in Chunk(chunkStart) : WeidianFetchFails(Target(k))}

\* C11 - No in-run retry.  In a run of either pipeline no product has two
\* requests sent for it.  A request that fails gives the product a null
\* result and a counted failure without sending another request, and the
\* run goes on with the next product (generic pipeline) or with the next
\* chunk or the merge (seller-specific pipeline): it is not aborted.
NoRetry ==
  /\ [](\A a, b \in 1..Len(fetchLog) : a # b => fetchLog[a] # fetchLog[b])
  /\ [][ ( /\ pipeline = "generic" /\ pc = "processing"
           /\ GenericFetchFails(At(products, i)) )
         => ( /\ pc' = "delay"
              /\ failCount' = failCount + 1
              /\ successCount' = successCount
              /\ At(products', i).imageUrl = Null
              /\ fetchLog' = fetchLog ) ]_vars
  /\ [][ (pipeline = "generic" /\ pc = "delay")
         => (pc' = "loop" /\ i' = i + 1 /\ fetchLog' = fetchLog) ]_vars
  /\ [][ (pipeline = "weidian" /\ pc = "joining" /\ inFlight = {})
         => ( /\ pc' \in {"batch", "chunkDelay"}
              /\ failCount' - failCount >= Cardinality(FailedInChunk)
              /\ \A k \in FailedInChunk :
                   MapGet(imageResults', Target(k).id) = Null
              /\ fetchLog' = fetchLog ) ]_vars

\* A finished run of fetch-images.mjs in which a request failed and a
\* request for a later product was sent after it.
NoRetryWitness ==
  /\ pipeline = "generic" /\ pc = "done"
  /\ failCount > 0
  /\ \E n \in 1..(Len(fetchLog) - 1) :
       /\ GenericFetchFails(At(loaded, fetchLog[n]))
       /\ At(productsFile.data, fetchLog[n]).imageUrl = Null
       /\ fetchLog[n + 1] > fetchLog[n]

\* C12 - Test-mode clamp.  In a --test run of fetch-images.mjs, with or
\* without --resume, whatever the size of the catalog and the index of the
\* checkpoint, no request is sent for a product at index 10 or higher and
\* at most 10 products are processed.
TestModeClamp ==
  (pipeline = "generic" /\ isTestMode) =>
    /\ \A n \in 1..Len(fetchLog) : fetchLog[n] < TEST_LIMIT
    /\ successCount + failCount + skippedCount <= TEST_LIMIT
    /\ pc \in {"loop", "processing", "delay"} => i <= Max(TEST_LIMIT, startIndex)
    /\ \A j \in 1..Len(products) :
         j - 1 >= TEST_LIMIT => products[j] = loaded[j]

\* A finished --test run over a catalog of more than 10 records that sent
\* requests and stopped at index 10.
TestModeClampWitness ==
  /\ pipeline = "generic" /\ isTestMode /\ pc = "done"
  /\ Len(loaded) > TEST_LIMIT
  /\ i = TEST_LIMIT
  /\ fetchLog # << >>
  /\ successCount + failCount + skippedCount = TEST_LIMIT

\* C13 - Bounded concurrency with chunk barrier.  In fetch-weidian-images.mjs
\* at most CONCURRENT_REQUESTS (5) requests are in flight at any moment, and
\* the requests of a chunk are sent only when no request of an earlier chunk
\* is in flight and every product of the earlier chunks has completed.
ChunkBarrier ==
  /\ [](Cardinality(inFlight) <= CONCURRENT_REQUESTS)
  /\ [][ (pipeline = "weidian" /\ fetchLog' # fetchLog)
         => ( /\ inFlight = {}
              /\ completed = chunkStart
              /\ Len(fetchLog') - Len(fetchLog) <= CONCURRENT_REQUESTS
              /\ \A n \in (Len(fetchLog) + 1)..Len(fetchLog') :
                   \E k \in chunkStart..(chunkStart + CONCURRENT_REQUESTS - 1) :
                     k < Len(targetProducts)
                     /\ fetchLog'[n] = At(targetProducts, k) ) ]_vars

\* The requests of a second chunk are in flight, none of them completed,
\* after a first chunk of CONCURRENT_REQUESTS requests.
ChunkBarrierWitness ==
  /\ pipeline = "weidian" /\ pc = "joining"
  /\ chunkStart = CONCURRENT_REQUESTS
  /\ settleOrder = << >>
  /\ Cardinality(inFlight) >= 2
  /\ Len(fetchLog) = CONCURRENT_REQUESTS + Cardinality(inFlight)

\* C14 - Merge after join.  In fetch-weidian-images.mjs neither the products
\* array nor the results map is changed while a request of a chunk is in
\* flight, and the catalog written at the end is the one that the results
\* taken in dispatch order give, in whatever order the requests of each
\* chunk completed.
MergeAfterJoin ==
  /\ [][ (pipeline = "weidian" /\ inFlight # {})
         => (products' = products /\ imageResults' = imageResults) ]_vars
  /\ [](pipeline = "weidian" /\ Written =>
          productsFile.data =
            Merge(loaded, Collect(<< >>, 0, Len(targetProducts) - 1)))

\* A finished run of two chunks or more whose last chunk completed in
\* another order than it was dispatched in, and which changed the catalog.
MergeAfterJoinWitness ==
  /\ pipeline = "weidian" /\ pc = "done"
  /\ Len(targetProducts) > CONCURRENT_REQUESTS
  /\ \E a, b \in 1..Len(settleOrder) :
       a < b /\ settleOrder[a] > settleOrder[b]
  /\ productsFile.data # loaded

\* C15 - Sequential model.  fetch-images.mjs sends its requests in strictly
\* increasing order of catalog index; a request is sent only from the head
\* of the loop, when no request is pending, so at most one is in flight;
\* and the loop leaves a product it has sent a request for only by the
\* rate-limit delay, so a delay elapses between two consecutive requests.
SequentialFetches ==
  /\ [](pipeline = "generic" =>
          \A a, b \in 1..Len(fetchLog) : a < b => fetchLog[a] < fetchLog[b])
  /\ [][ (pipeline = "generic" /\ fetchLog' # fetchLog)
         => ( /\ pc = "loop" /\ pc' = "processing"
              /\ fetchLog' = Append(fetchLog, i)
              /\ i' = i ) ]_vars
  /\ [][ ( /\ pipeline = "generic" /\ fetchLog # << >>
           /\ i = fetchLog[Len(fetchLog)] /\ i' # i )
         => (pc = "delay" /\ i' = i + 1) ]_vars

\* A finished run of fetch-images.mjs that sent three requests or more, two
\* consecutive ones for products that are not neighbours in the catalog.
SequentialFetchesWitness ==
  /\ pipeline = "generic" /\ pc = "done"
  /\ Len(fetchLog) >= 3
  /\ \E n \in 1..(Len(fetchLog) - 1) : fetchLog[n + 1] > fetchLog[n] + 1

\* The catalog indices of the records loaded without an image: imageUrl
\* null, empty or the default placeholder.
NeedingSubset ==
  {j \in 0..(Len(loaded) - 1) :
     At(loaded, j).imageUrl \in {Null, "", DEFAULT_IMAGE_PLACEHOLDER}}

\* The positional arguments as numbers: start (0 when absent) and end (the
\* size of the subset when absent).
RangeStart == OrZero(parseInt(Arg(0)))
RangeStop ==
  IF Arg(1) = Null THEN Cardinality(NeedingSubset)
  ELSE OrZero(parseInt(Arg(1)))

\* C16 - Range restriction.  fetch-weidian-images.mjs sends requests only
\* for the products at positions start..end-1 of the records needing images
\* (in catalog order), start and end being its positional arguments.
RangeRestriction ==
  pipeline = "weidian" =>
    \A n \in 1..Len(fetchLog) :
      \E k \in RangeStart..(RangeStop - 1) :
        /\ k < Cardinality(NeedingSubset)
        /\ fetchLog[n] = Ascending(NeedingSubset)[k + 1]

\* A finished run with both arguments that sent requests, while a record
\* needing an image that has an item id lies outside the range and was left
\* alone.
RangeRestrictionWitness ==
  /\ pipeline = "weidian" /\ pc = "done"
  /\ Arg(1) # Null
  /\ RangeStart > 0
  /\ fetchLog # << >>
  /\ \E j \in NeedingSubset :
       HasWeidianId(At(loaded, j)) /\ j \notin Range(fetchLog)

\* The buyUrl of the product yields no item identifier.
NoItemId(product) == ~HasWeidianId(product)

\* C17 - Malformed seller URL.  In fetch-weidian-images.mjs a product of the
\* work list whose buyUrl yields no item identifier has no request sent for
\* it and no result in the results map, is counted as a failure once its
\* chunk has been handled, and does not stop the run.
MalformedUrlIsFailure ==
  pipeline = "weidian" =>
    /\ \A k \in 0..(Len(targetProducts) - 1) :
         NoItemId(Target(k)) =>
           /\ At(targetProducts, k) \notin Range(fetchLog)
           /\ MapGet(imageResults, Target(k).id) = Null
    /\ failCount >=
         Cardinality({k \in 0..(completed - 1) : NoItemId(Target(k))})
    /\ (pc = "aborted" /\ chunkStart < Len(targetProducts)) =>
         \A k \in Chunk(chunkStart) : ~NoItemId(Target(k))

\* The positions (1-based) of the records of the catalog read that no
\* earlier record shares its buyUrl with.
FirstOccurrences ==
  {j \in 1..Len(loaded) :
     \A h \in 1..(j - 1) : loaded[h].buyUrl # loaded[j].buyUrl}

\* Those records in their order, with ids 1..M.
FirstOfEachBuyUrl ==
  [m \in 1..Cardinality(FirstOccurrences) |->
     [loaded[Ascending(FirstOccurrences)[m]] EXCEPT !.id = m]]

\* The buyUrl values of a catalog are unique.
UniqueBuyUrls(cat) ==
  \A a, b \in 1..Len(cat) : a # b => cat[a].buyUrl # cat[b].buyUrl

\* The catalog dedupe-products.mjs leaves is the first record of each
\* distinct buyUrl of the catalog it read, in the original order, with the
\* ids renumbered 1..M; its buyUrl values are unique.
DedupeResult ==
  (pipeline = "dedupe" /\ pc = "done") =>
    /\ productsFile.data = FirstOfEachBuyUrl
    /\ UniqueBuyUrls(productsFile.data)
    /\ \A m \in 1..Len(productsFile.data) : productsFile.data[m].id = m

\* C18 - Deduplication determinism.  For every catalog that it reads,
\* dedupe-products.mjs comes to write products.json, and the catalog it
\* writes is the first record (by original order) of each distinct buyUrl,
\* in the original order, with ids 1..M and unique buyUrl values.
DedupeKeepsFirst ==
  /\ []DedupeResult
  /\ [][ (pipeline = "dedupe" /\ pc \in {"filter", "report"})
         => pc' # "aborted" ]_vars


\* The candidate the extractor settles on, as the page has it: the value
\* of the first selector (from the k-th on) whose element has a value that
\* is not passed over, else the first source the fallback accepts (from
\* element j on); Null when the page has none.
RECURSIVE ChosenFallback(_, _)
ChosenFallback(html, j) ==
  IF j > Len(html) THEN Null
  ELSE IF AcceptedFallback(OrElse(html[j].src, html[j].dataSrc))
       THEN OrElse(html[j].src, html[j].dataSrc)
       ELSE ChosenFallback(html, j + 1)

RECURSIVE ChosenFrom(_, _)
ChosenAt(html, k, imageUrl) ==
  IF Truthy(imageUrl) /\ ~RejectedSelected(imageUrl) THEN imageUrl
  ELSE ChosenFrom(html, k + 1)

ChosenFrom(html, k) ==
  IF k > Len(IMAGE_SELECTORS) THEN ChosenFallback(html, 1)
  ELSE ChosenAt(html, k, Candidate(html, First(html, IMAGE_SELECTORS[k])))

Chosen(html) == ChosenFrom(html, 1)

RootRelative(url) == startsWith(url, "/") /\ ~startsWith(url, "//")
ProtocolRelative(url) == startsWith(url, "//")

\* extractImageUrl has returned.
Returned == pipeline = "extract" /\ pc = "done"

\* The page whose product image, the only image, has this source.
OnlyImage(src) == << Img(src, Null, Null, Null, {".product-image img"}) >>

\* C19: whenever the candidate the generic extractor settles on is a
\* root-relative URL, found by a selector or by the all-images fallback,
\* the extractor returns the origin of the page's URL followed by the
\* candidate; and for the page whose image is /img.jpg, fetched from
\* https://shop.example.com/item?id=1, it returns
\* https://shop.example.com/img.jpg.
RootRelativeResolved ==
  Returned =>
    /\ RootRelative(Chosen(pageHtml)) =>
         extracted = origin(pageUrl) \o Chosen(pageHtml)
    /\ (/\ pageHtml = OnlyImage("/img.jpg")
        /\ pageUrl = "https://shop.example.com/item?id=1") =>
         extracted = "https://shop.example.com/img.jpg"

\* C20: whenever the candidate the generic extractor settles on starts
\* with //, found by a selector or by the all-images fallback, and whatever
\* the page's URL, the extractor returns https: followed by the whole
\* candidate, its query included: //cdn.example.com/img.jpg gives
\* https://cdn.example.com/img.jpg and //img.alicdn.com/photo.jpg?x=1 gives
\* https://img.alicdn.com/photo.jpg?x=1.
ProtocolRelativeResolved ==
  Returned =>
    /\ ProtocolRelative(Chosen(pageHtml)) =>
         extracted = "https:" \o Chosen(pageHtml)
    /\ Chosen(pageHtml) = "//cdn.example.com/img.jpg" =>
         extracted = "https://cdn.example.com/img.jpg"
    /\ Chosen(pageHtml) = "//img.alicdn.com/photo.jpg?x=1" =>
         extracted = "https://img.alicdn.com/photo.jpg?x=1"

\* A protocol-relative candidate with a query has been resolved from an
\* element that only the all-images fallback finds.
ProtocolRelativeResolvedWitness ==
  /\ Returned
  /\ pageHtml = << Img("logo.png", Null, Null, Null, {}),
                   Img("//cdn.example.com/img.jpg", Null, Null, Null, {}) >>
  /\ Chosen(pageHtml) = "//cdn.example.com/img.jpg"
  /\ extracted = "https://cdn.example.com/img.jpg"

\* No selector of IMAGE_SELECTORS yields a candidate the extractor accepts.
NoSelectorCandidate(html) ==
  \A k \in 1..Len(IMAGE_SELECTORS) :
    LET imageUrl == Candidate(html, First(html, IMAGE_SELECTORS[k]))
    IN  ~Truthy(imageUrl) \/ RejectedSelected(imageUrl)

\* The source the fallback reads from an element: src, or data-src when
\* the element has no src.
FallbackSource(img) == IF Truthy(img.src) THEN img.src ELSE img.dataSrc

FallbackBlacklist == {"logo", "icon", "avatar", "loading", "placeholder"}

\* The elements of the page that qualify for the fallback.
Qualifying(html) ==
  {j \in 1..Len(html) :
     /\ Truthy(FallbackSource(html[j]))
     /\ \A word \in FallbackBlacklist :
          ~includes(FallbackSource(html[j]), word)
     /\ ~startsWith(FallbackSource(html[j]), "data:")
     /\ Len(FallbackSource(html[j])) >= 21}

\* C21: when no selector yields a candidate, the generic extractor returns
\* the source of the first <img> in document order whose src (data-src
\* when there is no src) contains none of logo, icon, avatar, loading,
\* placeholder, does not start with data: and has more than 20 characters
\* (with https: in front when it starts with //), and returns null when
\* no image qualifies, as for the page whose images are logo.png,
\* icon-favicon.ico and avatar-default.jpg.
FallbackBlacklistRejection ==
  (Returned /\ NoSelectorCandidate(pageHtml)) =>
    /\ Qualifying(pageHtml) = {} => extracted = Null
    /\ Qualifying(pageHtml) # {} =>
         extracted \in
           { FallbackSource(pageHtml[MinOf(Qualifying(pageHtml))]),
             "https:" \o FallbackSource(pageHtml[MinOf(Qualifying(pageHtml))]) }
    /\ pageHtml = PageLogos => extracted = Null

\* The fallback has passed over the site's logo and an avatar under a long
\* URL and returned the product photo behind them.
FallbackBlacklistRejectionWitness ==
  /\ Returned
  /\ NoSelectorCandidate(pageHtml)
  /\ Len(pageHtml) = 3
  /\ pageHtml[2].src = "https://cdn.example.com/users/avatar-default.jpg"
  /\ MinOf(Qualifying(pageHtml)) = 3
  /\ extracted = "https://cdn.example.com/upload/photo-13.jpg"

\* parseWeidianImage has returned.
Parsed == pipeline = "parse" /\ pc = "done"

\* C22: every URL the embedded-data extractor returns contains no ?, no
\* double quote and no &#34; and does not end in .webp; for a page whose
\* embedded text holds "item_head":"https://si.geilicdn.com/abc_750_1.jpg.webp"
\* it returns https://si.geilicdn.com/abc_750_1.jpg.
CleanedResult ==
  Parsed =>
    /\ extracted # Null =>
         /\ ~includes(extracted, "?")
         /\ ~includes(extracted, "\"")
         /\ ~includes(extracted, "&#34;")
         /\ ~endsWith(extracted, ".webp")
    /\ includes(pageHtml,
         "\"item_head\":\"https://si.geilicdn.com/abc_750_1.jpg.webp\"") =>
         extracted = "https://si.geilicdn.com/abc_750_1.jpg"

\* The candidates of the four strategies in their order: the item_head
\* field, the first element of the imgs array, the preload link with a
\* large-size marker (Null where the page has none), then the raw CDN URLs
\* with a large-size suffix in the order of the page.
StrategyCandidates(html) ==
  << FieldMatch(html, "item_head", ""),
     FieldMatch(html, "imgs", "["),
     PreloadMatch(html) >> \o CdnMatches(html, 1)

\* The cleaned first candidate that passes isValidProductImage, Null when
\* none passes.
FirstPassing(candidates) ==
  LET passing == {k \in 1..Len(candidates) :
                    /\ candidates[k] # Null
                    /\ isValidProductImage(candidates[k])}
  IN  IF passing = {} THEN Null
      ELSE cleanImageUrl(candidates[MinOf(passing)])

\* C26: the seller-specific extractor returns the cleaned candidate of the
\* first strategy, in the order item_head, imgs, preload link, raw CDN
\* URL, whose candidate passes isValidProductImage; a rejected candidate
\* lets the next strategy decide, and the result is null when none passes.
StrategyOrder ==
  Parsed => extracted = FirstPassing(StrategyCandidates(pageHtml))

\* The item_head is a logo and the first imgs element a blacklisted
\* background: the preload link has decided, although the page's body
\* holds a raw CDN URL that passes as well.
StrategyOrderWitness ==
  /\ Parsed
  /\ pageHtml = ItemPage("\"", "https://si.geilicdn.com/shop_logo.png",
                         "https://si.geilicdn.com/poseidon-bg.png",
                         "https://si.geilicdn.com/pre_1000_3.jpg",
                         "<img src='https://si.geilicdn.com/open_1600_9.PNG'>")
  /\ extracted = "https://si.geilicdn.com/pre_1000_3.jpg"

\* The first element of the page the selector matches, 0 when none does.
FirstMatch(html, selector) ==
  Leftmost({j \in 1..Len(html) : Matches(html[j], selector)})

\* The first non-empty attribute of an element among src, data-src,
\* data-lazy-src and data-original, Null when it has none.
FirstAttribute(img) ==
  LET values == << img.src, img.dataSrc, img.dataLazySrc, img.dataOriginal >>
      filled == {a \in 1..4 : values[a] # Null /\ values[a] # ""}
  IN  IF filled = {} THEN Null ELSE values[MinOf(filled)]

\* The candidate of the k-th selector: that of its first match.
SelectorCandidate(html, k) ==
  IF FirstMatch(html, IMAGE_SELECTORS[k]) = 0 THEN Null
  ELSE FirstAttribute(html[FirstMatch(html, IMAGE_SELECTORS[k])])

\* The selectors whose candidate is accepted.
AcceptingSelectors(html) ==
  {k \in 1..Len(IMAGE_SELECTORS) :
     /\ SelectorCandidate(html, k) # Null
     /\ \A word \in {"loading", "placeholder", "data:image"} :
          ~includes(SelectorCandidate(html, k), word)
     /\ Len(SelectorCandidate(html, k)) >= 10}

\* A candidate made absolute against the page's URL.
Normalised(imageUrl, baseUrl) ==
  CASE ProtocolRelative(imageUrl) -> "https:" \o imageUrl
    [] RootRelative(imageUrl) -> origin(baseUrl) \o imageUrl
    [] OTHER -> imageUrl

\* C25: for each selector only its first matching element counts, and its
\* candidate is the first non-empty attribute among src, data-src,
\* data-lazy-src, data-original; the generic extractor returns the
\* normalised candidate of the earliest selector of IMAGE_SELECTORS whose
\* candidate is accepted (none of loading, placeholder, data:image in it,
\* at least 10 characters), and what the all-images fallback gives only
\* when no selector has an accepted candidate.
SelectorPriority ==
  Returned =>
    IF AcceptingSelectors(pageHtml) # {}
    THEN extracted =
           Normalised(
             SelectorCandidate(pageHtml, MinOf(AcceptingSelectors(pageHtml))),
             pageUrl)
    ELSE extracted = FallbackFrom(pageHtml, 1)

\* The first element of .product-image still shows the spinner and has its
\* image in data-lazy-src behind an empty data-src: the extractor has
\* returned that image, not the photo of the second element.
SelectorPriorityWitness ==
  /\ Returned
  /\ Len(pageHtml) = 2
  /\ pageHtml[1] = Img(Null, "", "//cdn.example.com/lazy.jpg", "photo1.jpg",
                       {".product-image img"})
  /\ MinOf(AcceptingSelectors(pageHtml)) = 1
  /\ extracted = "https://cdn.example.com/lazy.jpg"

\* Every product of the run's range has been decided: skipped, or looked
\* up and counted as found or failed.
RangeDecided ==
  IF pipeline = "generic"
  THEN /\ i >= endIndex
       /\ successCount + failCount + skippedCount =
            Max(0, endIndex - startIndex)
  ELSE /\ inFlight = {}
       /\ completed = Len(targetProducts)
       /\ successCount + failCount = Len(targetProducts)

\* C29: in a run of either pipeline products.json is written at most once,
\* and only when every product of the range has been decided; until then,
\* wherever the run is stopped, products.json is as the run found it, and
\* fetch-weidian-images.mjs has written no other file either.
SingleCatalogWrite ==
  /\ [](~Written => productsFile = catalogAtStart)
  /\ [](pipeline = "weidian" => checkpointFile = checkpointAtStart)
  /\ [][(~Written /\ Written') => RangeDecided]_vars
  /\ [][Written => (Written' /\ productsFile' = productsFile)]_vars

\* fetch-images.mjs has saved a checkpoint on its way and has then written
\* a catalog that differs from the one it found.
SingleCatalogWriteWitness ==
  /\ pipeline = "generic"
  /\ pc = "cleanup"
  /\ productsFile # catalogAtStart
  /\ checkpointFile # checkpointAtStart
  /\ successCount > 0
  /\ failCount > 0

\* The run has ended as it is meant to: every product of its range is
\* decided and products.json holds the array.
Done ==
  /\ pc = "done"
  /\ RangeDecided
  /\ productsFile = CatalogFile(products)

\* The process has ended: no step of the run is left.
Ended == pc \in {"done", "aborted"}

\* C27: in both pipelines, when every request sent completes and the
\* catalog can be read and written, the run eventually reaches Done,
\* having decided every product of its range and written products.json.
\* A run that has ended takes no further step, so the claim has every run
\* that has ended be in Done, unless the catalog could not be read or
\* written.
EndsInDone == Ended => (Done \/ ReadFailed \/ WriteFailed)

\* The record at index j of products.json has a resolved image.
Recorded(file, j) ==
  /\ file.ok
  /\ j < Len(file.data)
  /\ ResolvedImage(At(file.data, j).imageUrl)

\* C23 - Resolved images are never lost across runs.  Over the runs of
\* fetch-images.mjs (default, --test, --resume, completed or killed)
\* and of fetch-weidian-images.mjs on the same files, once products.json
\* records a resolved imageUrl for a product, every later products.json
\* records the same imageUrl for it.
ResolvedImagesKept ==
  [][productsFile' # productsFile =>
       \A j \in 0..(Len(productsFile.data) - 1) :
         Recorded(productsFile, j) =>
           /\ Recorded(productsFile', j)
           /\ At(productsFile'.data, j).id = At(productsFile.data, j).id
           /\ At(productsFile'.data, j).imageUrl =
                At(productsFile.data, j).imageUrl]_vars

\* The indices a run of fetch-images.mjs over catalog cat sends requests
\* for from index from on, in order.
Requests(cat, from) ==
  Ascending({j \in from..(Len(cat) - 1) :
               /\ ~AlreadyHasImage(At(cat, j))
               /\ HasBuyUrl(At(cat, j))
               /\ SendsRequest(At(cat, j).buyUrl)})

\* A --resume run has written the catalog, and the run before it was a
\* full run of fetch-images.mjs that was killed.
ResumedAfterKill ==
  /\ pipeline = "generic" /\ isResumeMode /\ ~isTestMode
  /\ Written
  /\ previous.pipeline = "generic"
  /\ previous.argv = << >>
  /\ previous.outcome = "killed"

\* C24 - Crash-resume equivalence.  With the fetch outcome of each product
\* fixed and products.json not otherwise modified, when a full run of
\* fetch-images.mjs is killed and a --resume run then completes, the
\* catalog it writes is the one an uninterrupted full run would have
\* written, and the resumed run sends requests only for indices after the
\* last persisted checkpoint, or for all of them when there is none.
ResumeEquivalence ==
  ResumedAfterKill =>
    /\ productsFile.data =
         AfterRun(previous.catalog.data, Len(previous.catalog.data) - 1)
    /\ Range(fetchLog) \subseteq
         Range(Requests(previous.catalog.data,
                        IF checkpointAtStart.state = "valid"
                        THEN checkpointAtStart.lastProcessedIndex + 1
                        ELSE 0))

\* fetch-weidian-images.mjs has completed with the second range, and the
\* run before it had completed with the first.
BothRangesDone ==
  /\ pipeline = "weidian" /\ argv = SecondRange /\ pc = "done"
  /\ previous.pipeline = "weidian"
  /\ previous.argv = FirstRange
  /\ previous.outcome = "done"

\* C28 - Consecutive ranges cover the catalog.  When
\* fetch-weidian-images.mjs has run to completion with range 0 k and then
\* with range k 2k, a request was sent, in one of the two runs, for each of
\* the first 2k products that needed an image before the first run.
ConsecutiveRangesCover ==
  BothRangesDone =>
    \A j \in Range(slice(productsNeedingImages(previous.catalog.data),
                         0, 2 * RangeStep)) :
      HasWeidianId(At(previous.catalog.data, j)) =>
        j \in Range(previous.fetchLog) \cup Range(fetchLog)

\* C30 - Result attribution.  For every catalog, one in which two records
\* share an id included, the merge of fetch-weidian-images.mjs changes the
\* imageUrl only of records of the processed slice whose own lookup found
\* an image, and sets each of these to the URL extracted for that record.
ResultAttribution ==
  (pipeline = "weidian" /\ Written) =>
    \A j \in 0..(Len(loaded) - 1) :
      /\ At(productsFile.data, j).imageUrl # At(loaded, j).imageUrl =>
           /\ j \in Range(targetProducts)
           /\ Truthy(Resolution(At(loaded, j)))
      /\ (j \in Range(targetProducts) /\ Truthy(Resolution(At(loaded, j)))) =>
           At(productsFile.data, j).imageUrl = Resolution(At(loaded, j))

====
